---- MODULE Spec2Model ----
(***************************************************************************)
(* A model of DubBotBase: the event translator (translator.js), the room   *)
(* state tracker (state_tracker.js), the command router and the startup   *)
(* sequence (main.js) and the Bot facade (dubtrack.js).                    *)
(*                                                                         *)
(* JavaScript values are represented as follows.                           *)
(*   - objects are records; a property that the object does not have is a  *)
(*     field missing from the record's DOMAIN;                             *)
(*   - arrays are sequences (index i of the array is index i+1 here);      *)
(*   - text that the code inspects character by character (chat messages,  *)
(*     command tokens) is a sequence of one-character strings; identifiers *)
(*     and names that are only compared are plain strings;                 *)
(*   - a number that may be absent is Num(n), a Date object is Date(n);    *)
(*   - undefined is `undefined` where a string is expected and             *)
(*     `undefinedObj` where an object or number is expected; null is       *)
(*     `null`.                                                             *)
(***************************************************************************)
EXTENDS Integers, Sequences, FiniteSets, TLC

VARIABLES
    config,      \* globalObject.config.DubBotBase
    roomState,   \* globalObject.roomState
    phase,       \* "connected" before StateTracker.init has run, "running" after
    clock,       \* the value Date.now() returns
    lastOp,      \* history variable: the last operation, its input and its outcome
    commands,    \* the registered command modules (the array _registerCommands returns)
    calls,       \* history variable: the command callbacks invoked by the last chat delivery
    eventHandlers, \* Bot's eventHandlers: the listeners registered for each event name
    transport    \* the vendor client: the requests the Bot has issued to it

vars == <<config, roomState, phase, clock, lastOp, commands, calls, eventHandlers, transport>>

-----------------------------------------------------------------------------
(* Bounds *)

\* largest value the two history-length options of the configuration take
MaxStore == 2
\* number of Advance deliveries of a behaviour of SpecPlays (each takes one clock tick)
MaxAdvances == 2
\* number of Chat deliveries of a behaviour of SpecChat (each takes one clock tick)
MaxChats == 4
\* number of Chat deliveries of a behaviour of SpecCommands (each takes one clock tick)
MaxCommandChats == 2
\* longest chat message of the translator's input space
MaxMessageLen == 5

-----------------------------------------------------------------------------
(* JavaScript values *)

undefined == "undefined"
undefinedObj == [undefined |-> TRUE]
null == [null |-> TRUE]

Num(n) == [num |-> n]
Date(n) == [date |-> n]

\* obj.f for a property holding an object or a number
Prop(obj, f) == IF f \in DOMAIN obj THEN obj[f] ELSE undefinedObj
\* obj.f for a property holding a string
PropStr(obj, f) == IF f \in DOMAIN obj THEN obj[f] ELSE undefined

\* truthiness of an object-or-number value
Truthy(v) ==
    /\ v # undefinedObj
    /\ v # null
    /\ ("num" \in DOMAIN v => v.num # 0)

\* obj with property f set to v
With(obj, f, v) == (f :> v) @@ obj

\* Array.prototype.indexOf (0-based, -1 when absent)
IndexOf(arr, x) ==
    IF \E i \in 1..Len(arr) : arr[i] = x
    THEN (CHOOSE i \in 1..Len(arr) : arr[i] = x /\ \A j \in 1..(i-1) : arr[j] # x) - 1
    ELSE -1

\* arr.splice(index, 1), index 0-based
Splice1(arr, index) ==
    [i \in 1..(Len(arr) - 1) |-> IF i <= index THEN arr[i] ELSE arr[i + 1]]

\* arr.unshift(x)
Unshift(arr, x) == <<x>> \o arr

\* arr.length = n, for n < arr.length
Truncate(arr, n) == SubSeq(arr, 1, n)

Range(f) == {f[x] : x \in DOMAIN f}

-----------------------------------------------------------------------------
(* types.js *)

ChatType == [COMMAND |-> "command", EMOTE |-> "emote", MESSAGE |-> "message"]

\* the internal event names
Event ==
    [ADVANCE                    |-> "room_playlist-update",
     CHAT                       |-> "chat-message",
     CHAT_DELETE                |-> "delete-chat-message",
     GRAB                       |-> "room_playlist-queue-update-grabs",
     MODERATE_BAN               |-> "user-ban",
     MODERATE_MUTE              |-> "user-mute",
     ROOM_PLAYLIST_QUEUE_UPDATE |-> "room_playlist-queue-update-dub",
     ROOM_UPDATE                |-> "room-update",
     SKIP                       |-> "chat-skip",
     USER_IMAGE_UPDATE          |-> "user-update",
     USER_JOIN                  |-> "user-join",
     USER_LEAVE                 |-> "user-leave",
     USER_SET_ROLE              |-> "user-setrole",
     USER_UNBAN                 |-> "user-unban",
     USER_UNMUTE                |-> "user-unmute",
     USER_UNSET_ROLE            |-> "user-unsetrole",
     USER_UPDATE                |-> "user_update",
     VOTE                       |-> "room_playlist-dub"]

Role ==
    [NONE        |-> [name |-> "none",       level |-> 0],
     DJ          |-> [name |-> "dj",         level |-> 1],
     RESIDENT_DJ |-> [name |-> "residentDj", level |-> 2],
     VIP         |-> [name |-> "vip",        level |-> 2],
     MOD         |-> [name |-> "mod",        level |-> 3],
     COOWNER     |-> [name |-> "co-owner",   level |-> 4],
     OWNER       |-> [name |-> "owner",      level |-> 5]]

\* Types.UserRole.<key>
UserRole(key) == Prop(Role, key)

-----------------------------------------------------------------------------
(* translator.js *)

translateDateTimestamp(timestamp, now) ==
    IF ~Truthy(timestamp) THEN Num(now) ELSE Date(timestamp.num)

translateMediaObject(media) ==
    IF ~Truthy(media) THEN null
    ELSE [contentID         |-> media.fkid,
          durationInSeconds |-> media.songLength \div 1000,
          fullTitle         |-> media.name]

translateScoreObject(score) ==
    IF ~Truthy(score) THEN null
    ELSE [grabs |-> score.grabs, mehs |-> score.downdubs, woots |-> score.updubs]

translateRole(role) ==
    CASE role = "5615fa9ae596154a5c000000" -> UserRole("COOWNER")
      [] role = "5615fd84e596150061000003" -> UserRole("MANAGER")
      [] role = "52d1ce33c38a06510c000001" -> UserRole("MOD")
      [] role = "5615fe1ee596154fc2000001" -> UserRole("VIP")
      [] role = "5615feb8e596154fc2000002" -> UserRole("RESIDENT_DJ")
      [] role = "564435423f6ba174d2000001" -> UserRole("DJ")
      [] OTHER -> UserRole("NONE")

translateUserObject(dubapiDj, now) ==
    IF ~Truthy(dubapiDj) THEN null
    ELSE [dubs                |-> dubapiDj.dubs,
          joinDate            |-> translateDateTimestamp(Prop(dubapiDj, "created"), now),
          numberOfSongsPlayed |-> dubapiDj.playedCount,
          role                |-> translateRole(PropStr(dubapiDj, "role")),
          userID              |-> dubapiDj.id,
          username            |-> dubapiDj.username]

\* translateAdvanceEvent without the test that the vendor start time is positive
translateAdvanceEvent_AnyStartTime(event, now) ==
    IF ~Truthy(Prop(event, "user")) \/ ~Truthy(Prop(event, "media")) THEN null
    ELSE [incomingDJ     |-> translateUserObject(event.user, now),
          localStartDate |-> Date(now),
          media          |-> translateMediaObject(event.media),
          startDate      |-> IF Truthy(Prop(event, "startTime"))
                             THEN translateDateTimestamp(event.startTime, now)
                             ELSE Date(now)]

translateAdvanceEvent(event, now) ==
    IF ~Truthy(Prop(event, "user")) \/ ~Truthy(Prop(event, "media")) THEN null
    ELSE LET obj == [incomingDJ     |-> translateUserObject(event.user, now),
                     localStartDate |-> Date(now),
                     media          |-> translateMediaObject(event.media),
                     startDate      |-> IF Truthy(Prop(event, "startTime")) /\ event.startTime.num > 0
                                        THEN translateDateTimestamp(event.startTime, now)
                                        ELSE Date(now)]
             lastPlay == Prop(event, "lastPlay")
         IN  IF /\ Truthy(lastPlay)
                /\ Truthy(Prop(lastPlay, "user"))
                /\ Truthy(Prop(lastPlay, "media"))
                /\ Truthy(Prop(lastPlay, "score"))
             THEN With(obj, "previousPlay",
                       [dj    |-> translateUserObject(lastPlay.user, now),
                        media |-> translateMediaObject(lastPlay.media),
                        score |-> translateScoreObject(lastPlay.score)])
             ELSE obj

translateGrabEvent(event) == [userID |-> event]

\* a mutant of translateVoteEvent: every kind tag other than "updub" is a -1 vote
translateVoteEvent_AnyDubtype(event, now) ==
    [user |-> translateUserObject(Prop(event, "user"), now),
     vote |-> IF event.dubtype = "updub" THEN 1 ELSE -1]

translateVoteEvent(event, now) ==
    IF event.dubtype # "updub" /\ event.dubtype # "downdub" THEN undefinedObj
    ELSE [user |-> translateUserObject(Prop(event, "user"), now),
          vote |-> IF event.dubtype = "updub" THEN 1 ELSE -1]

translateChatDeleteEvent(event) ==
    [chatID          |-> event.id,
     deleterID       |-> event.user.id,
     deleterUsername |-> event.user.username]

\* the characters the regular expression class \s matches
Whitespace == {" ", "\t", "\n"}

\* String.prototype.trim
RECURSIVE TrimLeft(_)
TrimLeft(s) == IF s # <<>> /\ Head(s) \in Whitespace THEN TrimLeft(Tail(s)) ELSE s

RECURSIVE TrimRight(_)
TrimRight(s) ==
    IF s # <<>> /\ s[Len(s)] \in Whitespace THEN TrimRight(SubSeq(s, 1, Len(s) - 1)) ELSE s

Trim(s) == TrimRight(TrimLeft(s))

\* s.split(/\s+/): cur is the piece being read, sep tells a separator run is being skipped
RECURSIVE SplitFrom(_, _, _)
SplitFrom(s, cur, sep) ==
    IF s = <<>> THEN <<cur>>
    ELSE IF Head(s) \in Whitespace
         THEN IF sep THEN SplitFrom(Tail(s), cur, TRUE)
              ELSE <<cur>> \o SplitFrom(Tail(s), <<>>, TRUE)
         ELSE SplitFrom(Tail(s), Append(cur, Head(s)), FALSE)

SplitWhitespace(s) == SplitFrom(s, <<>>, FALSE)

\* s.replace(pat, ""), pat one character: removes the first occurrence
ReplaceFirst(s, pat) ==
    IF IndexOf(s, pat) < 0 THEN s ELSE Splice1(s, IndexOf(s, pat))

\* /\/me /.test(s)
TestSlashMe(s) ==
    \E i \in 1..(Len(s) - 3) :
        s[i] = "/" /\ s[i + 1] = "m" /\ s[i + 2] = "e" /\ s[i + 3] = " "

\* s.substring(n)
Substring(s, n) == SubSeq(s, n + 1, Len(s))

\* translateChatType both returns the type and may assign event.message:
\* ret is the value returned, message is event.message after the call.
translateChatType(event) ==
    IF event.message # <<>> /\ event.message[1] = "!"
    THEN [ret |-> ChatType.COMMAND, message |-> event.message]
    ELSE IF Len(event.message) > 4 /\ TestSlashMe(event.message)
         THEN [ret |-> ChatType.EMOTE, message |-> Substring(event.message, 4)]
         ELSE [ret |-> ChatType.MESSAGE, message |-> event.message]

\* The properties of the object literal are evaluated in source order: message
\* is read from event.message before translateChatType(event) is called.
translateChatEvent(event) ==
    LET hasUser == Truthy(Prop(event, "user"))
        obj == [chatID   |-> event.id,
                message  |-> event.message,
                type     |-> translateChatType(event).ret,
                userID   |-> IF hasUser THEN event.user.id ELSE event.raw.user._id,
                username |-> IF hasUser THEN event.user.username ELSE event.raw.user.username,
                userRole |-> translateRole(IF hasUser THEN PropStr(event.user, "role")
                                           ELSE PropStr(event.raw.user, "roleid"))]
    IN  IF obj.type = ChatType.COMMAND
        THEN LET words == SplitWhitespace(Trim(event.message))
             IN  With(With(obj, "command", ReplaceFirst(words[1], "!")), "args", Tail(words))
        ELSE obj

-----------------------------------------------------------------------------
(* state_tracker.js *)

\* the IDs of the selected users, in the order of the user list (the loop of
\* populateUsers that pushes user.id to the list a user's flags select)
IDsOf(selected) == [i \in 1..Len(selected) |-> selected[i].id]

IsGrab(user) == user.grab
IsWoot(user) == user.vote = 1
\* a mutant of the meh test: every user who did not woot counts
IsMeh_NotWoot(user) == user.vote # 1

IsMeh(user) == user.vote # 1 /\ user.vote = -1

\* A Play carries one field the source does not have: arrival, a history
\* field holding the clock value at which the Play was created.
NewPlay(media, startDate, user, grabs, mehs, woots, arrival) ==
    [media     |-> media,
     startDate |-> startDate,
     user      |-> user,
     votes     |-> [grabs |-> grabs, mehs |-> mehs, woots |-> woots],
     arrival   |-> arrival]

\* roomState after populateUsers, given what getMedia, getDJ, getUsers and
\* getTimeElapsed return. (getQueue's result is read into a local variable
\* and not stored.)
populateUsers(rs, media, dj, users, elapsedTime, now) ==
    LET currentSong == translateMediaObject(media)
        currentDj == translateUserObject(dj, now)
        usersInRoom == rs.usersInRoom
                       \o [i \in 1..Len(users) |-> translateUserObject(users[i], now)]
        currentPlay == NewPlay(currentSong, Num(now - elapsedTime * 1000), currentDj,
                               IDsOf(SelectSeq(users, IsGrab)),
                               IDsOf(SelectSeq(users, IsMeh)),
                               IDsOf(SelectSeq(users, IsWoot)),
                               now)
    IN  [rs EXCEPT !.usersInRoom = usersInRoom,
                   !.playHistory = IF Truthy(currentSong) /\ Truthy(currentDj)
                                   THEN Unshift(@, currentPlay)
                                   ELSE @]

\* roomState after init: the fresh snapshot of lines 311-316, then populateUsers
init(media, dj, users, elapsedTime, now) ==
    populateUsers([chatHistory |-> <<>>, mediaQueue |-> <<>>,
                   playHistory |-> <<>>, usersInRoom |-> <<>>],
                  media, dj, users, elapsedTime, now)

onAdvance(rs, event, cfg, now) ==
    LET maxPlayHistoryLength == cfg.numberOfPlayedSongsToStore
        play == NewPlay(event.media, event.startDate, event.incomingDJ,
                        <<>>, <<>>, <<>>, now)
        unshifted == Unshift(rs.playHistory, play)
    IN  [rs EXCEPT !.playHistory = IF Len(unshifted) > maxPlayHistoryLength
                                   THEN Truncate(unshifted, maxPlayHistoryLength)
                                   ELSE unshifted]

\* reading playHistory[0].votes throws a TypeError when playHistory is empty
NoCurrentSong(rs) == rs.playHistory = <<>>

\* a mutant of onGrab: the grab goes to the oldest Play
onGrab_OldestPlay(rs, event) ==
    [rs EXCEPT !.playHistory[Len(rs.playHistory)].votes.grabs = Append(@, event.userID)]

\* onGrab without the indexOf test
onGrab_AlwaysPush(rs, event) ==
    [rs EXCEPT !.playHistory[1].votes.grabs = Append(@, event.userID)]

onGrab(rs, event) ==
    LET currentSong == rs.playHistory[1]
    IN  IF IndexOf(currentSong.votes.grabs, event.userID) < 0
        THEN [rs EXCEPT !.playHistory[1].votes.grabs = Append(@, event.userID)]
        ELSE rs

\* onVote without the removal from mehs
onVote_KeepsMehs(rs, event) ==
    LET currentSong == rs.playHistory[1]
        userID == PropStr(event, "userID")
        woots1 == IF IndexOf(currentSong.votes.woots, userID) >= 0
                  THEN Splice1(currentSong.votes.woots, IndexOf(currentSong.votes.woots, userID))
                  ELSE currentSong.votes.woots
    IN  [rs EXCEPT !.playHistory[1].votes.woots =
                       IF event.vote = 1 THEN Append(woots1, userID) ELSE woots1,
                   !.playHistory[1].votes.mehs =
                       IF event.vote # 1 /\ event.vote = -1 THEN Append(@, userID) ELSE @]

\* onVote reads event.userID, a property the object translateVoteEvent
\* returns may or may not have
onVote(rs, event) ==
    LET currentSong == rs.playHistory[1]
        userID == PropStr(event, "userID")
        woots1 == IF IndexOf(currentSong.votes.woots, userID) >= 0
                  THEN Splice1(currentSong.votes.woots, IndexOf(currentSong.votes.woots, userID))
                  ELSE currentSong.votes.woots
        mehs1 == IF IndexOf(currentSong.votes.mehs, userID) >= 0
                 THEN Splice1(currentSong.votes.mehs, IndexOf(currentSong.votes.mehs, userID))
                 ELSE currentSong.votes.mehs
    IN  [rs EXCEPT !.playHistory[1].votes.woots =
                       IF event.vote = 1 THEN Append(woots1, userID) ELSE woots1,
                   !.playHistory[1].votes.mehs =
                       IF event.vote # 1 /\ event.vote = -1 THEN Append(mehs1, userID) ELSE mehs1]

\* a mutant of onChat: chatHistory is never truncated
onChat_NoTruncate(rs, event, cfg, now) ==
    [rs EXCEPT !.chatHistory =
        Unshift(@, [chatID       |-> event.chatID,
                    message      |-> event.message,
                    timestamp    |-> Num(now),
                    type         |-> event.type,
                    userID       |-> event.userID,
                    username     |-> event.username,
                    wasUserMuted |-> Prop(event, "isMuted")])]

onChat(rs, event, cfg, now) ==
    LET maxChatHistoryLength == cfg.numberOfChatEventsToStore
        chatObj == [chatID       |-> event.chatID,
                    message      |-> event.message,
                    timestamp    |-> Num(now),
                    type         |-> event.type,
                    userID       |-> event.userID,
                    username     |-> event.username,
                    wasUserMuted |-> Prop(event, "isMuted")]
        unshifted == Unshift(rs.chatHistory, chatObj)
    IN  [rs EXCEPT !.chatHistory = IF Len(unshifted) > maxChatHistoryLength
                                   THEN Truncate(unshifted, maxChatHistoryLength)
                                   ELSE unshifted]

\* chatObj.isDeleted as a condition
IsDeleted(chatObj) == "isDeleted" \in DOMAIN chatObj /\ chatObj.isDeleted

\* a mutant of the marking: it also blanks the text of the message
MarkDeleted_Blanks(chatObj, event, currentTime) ==
    With(With(With(With(chatObj, "isDeleted", TRUE),
                   "deletedByUserID", PropStr(event, "modUserID")),
              "deletionTime", Num(currentTime)),
         "message", <<>>)

\* the three assignments that mark a message deleted
MarkDeleted(chatObj, event, currentTime) ==
    With(With(With(chatObj, "isDeleted", TRUE),
              "deletedByUserID", PropStr(event, "modUserID")),
         "deletionTime", Num(currentTime))

\* first loop: 0-based index of the first message whose chatID is the event's, or -1
deletedMessageIndexOf(rs, event) ==
    IF \E i \in 1..Len(rs.chatHistory) : rs.chatHistory[i].chatID = event.chatID
    THEN (CHOOSE i \in 1..Len(rs.chatHistory) :
              /\ rs.chatHistory[i].chatID = event.chatID
              /\ \A j \in 1..(i - 1) : rs.chatHistory[j].chatID # event.chatID) - 1
    ELSE -1

\* a mutant of the second loop: it stops after one message
CascadeFrom_Single(history, i, userID) ==
    IF i > Len(history) THEN {}
    ELSE IF history[i].userID = userID /\ ~IsDeleted(history[i]) THEN {i} ELSE {}

\* second loop: the (1-based) positions after the found one that get marked,
\* scanning from position i while the author is the same and the message
\* is not deleted yet
RECURSIVE CascadeFrom(_, _, _)
CascadeFrom(history, i, userID) ==
    IF i > Len(history) THEN {}
    ELSE IF history[i].userID = userID /\ ~IsDeleted(history[i])
         THEN {i} \cup CascadeFrom(history, i + 1, userID)
         ELSE {}

\* the (1-based) positions of chatHistory that onChatDelete marks
MarkedPositions(rs, event) ==
    LET deletedMessageIndex == deletedMessageIndexOf(rs, event)
    IN  IF deletedMessageIndex >= 0
        THEN {deletedMessageIndex + 1}
             \cup CascadeFrom(rs.chatHistory, deletedMessageIndex + 2,
                              rs.chatHistory[deletedMessageIndex + 1].userID)
        ELSE {}

onChatDelete(rs, event, currentTime) ==
    [rs EXCEPT !.chatHistory =
        [i \in 1..Len(@) |-> IF i \in MarkedPositions(rs, event)
                             THEN MarkDeleted(@[i], event, currentTime)
                             ELSE @[i]]]

\* event.deletedMessages as onChatDelete leaves it: the marked messages in scan order
RECURSIVE deletedMessagesFrom(_, _, _)
deletedMessagesFrom(history, marked, i) ==
    IF i > Len(history) THEN <<>>
    ELSE (IF i \in marked THEN <<history[i]>> ELSE <<>>)
         \o deletedMessagesFrom(history, marked, i + 1)

deletedMessages(rs, event, currentTime) ==
    deletedMessagesFrom(onChatDelete(rs, event, currentTime).chatHistory,
                        MarkedPositions(rs, event), 1)

-----------------------------------------------------------------------------
(* main.js: the command router *)

UpperCase == <<"A", "B", "S">>
LowerCase == <<"a", "b", "s">>

\* String.prototype.toLowerCase, on the letters of the model's alphabet
ToLowerCase(s) ==
    [i \in 1..Len(s) |->
        IF \E k \in 1..Len(UpperCase) : UpperCase[k] = s[i]
        THEN LowerCase[CHOOSE k \in 1..Len(UpperCase) : UpperCase[k] = s[i]]
        ELSE s[i]]

Call(i, fn) == [command |-> i, fn |-> fn]

\* the loop with the role test level <= minimumRole.level
RECURSIVE commandLoop_Inclusive(_, _, _, _)
commandLoop_Inclusive(cmds, i, chatEvent, commandName) ==
    IF i > Len(cmds) THEN [calls |-> <<>>, threw |-> FALSE]
    ELSE LET command == cmds[i]
             rest == commandLoop_Inclusive(cmds, i + 1, chatEvent, commandName)
             handled == [calls |-> <<Call(i, "handler")>> \o rest.calls,
                         threw |-> rest.threw]
         IN  IF IndexOf(command.triggers, commandName) >= 0
             THEN IF Truthy(Prop(command, "minimumRole"))
                  THEN IF chatEvent.userRole = undefinedObj
                       THEN [calls |-> <<>>, threw |-> TRUE]
                       ELSE IF chatEvent.userRole.level <= command.minimumRole.level
                            THEN [calls |-> (IF "insufficientPermissionsHandler"
                                                  \in DOMAIN command
                                             THEN <<Call(i, "insufficientPermissionsHandler")>>
                                             ELSE <<>>) \o rest.calls,
                                  threw |-> rest.threw]
                            ELSE handled
                  ELSE handled
             ELSE rest

\* The loop of the function _createCommandHandler returns, from commands[i-1] on:
\* the callbacks invoked, in order, and whether the loop ended in a TypeError
\* (chatEvent.userRole.level read while userRole is undefined).
RECURSIVE commandLoop(_, _, _, _)
commandLoop(cmds, i, chatEvent, commandName) ==
    IF i > Len(cmds) THEN [calls |-> <<>>, threw |-> FALSE]
    ELSE LET command == cmds[i]
             rest == commandLoop(cmds, i + 1, chatEvent, commandName)
             handled == [calls |-> <<Call(i, "handler")>> \o rest.calls,
                         threw |-> rest.threw]
         IN  IF IndexOf(command.triggers, commandName) >= 0
             THEN IF Truthy(Prop(command, "minimumRole"))
                  THEN IF chatEvent.userRole = undefinedObj
                       THEN [calls |-> <<>>, threw |-> TRUE]
                       ELSE IF chatEvent.userRole.level < command.minimumRole.level
                            THEN [calls |-> (IF "insufficientPermissionsHandler"
                                                  \in DOMAIN command
                                             THEN <<Call(i, "insufficientPermissionsHandler")>>
                                             ELSE <<>>) \o rest.calls,
                                  threw |-> rest.threw]
                            ELSE handled
                  ELSE handled
             ELSE rest

\* the function _createCommandHandler(cmds) returns, applied to chatEvent
commandHandler(cmds, chatEvent, cfg) ==
    IF "command" \notin DOMAIN chatEvent \/ chatEvent.command = <<>>
    THEN [calls |-> <<>>, threw |-> FALSE]
    ELSE commandLoop(cmds, 1, chatEvent,
                     IF ~cfg.areCommandsCaseSensitive
                     THEN ToLowerCase(chatEvent.command)
                     ELSE chatEvent.command)

-----------------------------------------------------------------------------
(* translator.js: the translators of the user and wait-list events *)

\* Number(event.time) for a time that is a number or absent
translateModBanEvent(event, now) ==
    [bannedUser        |-> translateUserObject(Prop(event, "user"), now),
     durationInMinutes |-> IF "time" \in DOMAIN event THEN event.time ELSE [NaN |-> TRUE],
     mod               |-> translateUserObject(Prop(event, "mod"), now)]

translateModMuteEvent(event, now) ==
    [mutedUser |-> translateUserObject(Prop(event, "user"), now),
     mod       |-> translateUserObject(Prop(event, "mod"), now)]

translateModSkipEvent(event) ==
    [modUsername |-> PropStr(event, "m"), modUserID |-> PropStr(event, "mi")]

translateSkipEvent(event) ==
    [userID |-> event.user.id, username |-> event.user.username]

translateUserJoinEvent(event, now) == translateUserObject(Prop(event, "user"), now)

translateUserLeaveEvent(event, now) == translateUserObject(Prop(event, "user"), now)

translateUserUpdateEvent(event, now) == translateUserObject(Prop(event, "user"), now)

\* event.queue, when present, is an array
translateRoomPlaylistQueueUpdateEvent(event, now) ==
    IF "queue" \notin DOMAIN event THEN undefinedObj
    ELSE [queue |-> [i \in 1..Len(event.queue) |->
                        [media |-> translateMediaObject(Prop(event.queue[i], "media")),
                         user  |-> translateUserObject(Prop(event.queue[i], "user"), now)]]]

-----------------------------------------------------------------------------
(* state_tracker.js: the handlers of the user and wait-list events *)

\* 0-based, -1 when absent
_findUserIndex(users, userID) ==
    IF \E i \in 1..Len(users) : users[i].userID = userID
    THEN (CHOOSE i \in 1..Len(users) :
             users[i].userID = userID /\ \A j \in 1..(i-1) : users[j].userID # userID) - 1
    ELSE -1

_findUser(users, userID) ==
    LET index == _findUserIndex(users, userID)
    IN  IF index >= 0 THEN users[index + 1] ELSE null

\* a mutant of _removeUser: it removes the first entry when the user is found
_removeUser_First(users, userID) ==
    LET index == _findUserIndex(users, userID)
    IN  IF index >= 0 THEN Tail(users) ELSE users

_removeUser(users, userID) ==
    LET index == _findUserIndex(users, userID)
    IN  IF index >= 0 THEN Splice1(users, index) ELSE users

\* a mutant of onRoomPlaylistQueueUpdate: the new queue is appended to the old
onRoomPlaylistQueueUpdate_Merge(rs, event) ==
    With(rs, "waitList",
         (IF "waitList" \in DOMAIN rs THEN rs.waitList ELSE <<>>) \o event.queue)

onRoomPlaylistQueueUpdate(rs, event) == With(rs, "waitList", event.queue)

onUserLeave(rs, event) ==
    [rs EXCEPT !.usersInRoom = _removeUser(@, event.userID)]

\* a mutant of onUserJoin: pushes without looking for an existing entry
onUserJoin_AlwaysPush(rs, event) ==
    [rs EXCEPT !.usersInRoom = Append(@, event)]

onUserJoin(rs, event) ==
    LET existingUser == _findUser(rs.usersInRoom, event.userID)
    IN  IF Truthy(existingUser) THEN rs
        ELSE [rs EXCEPT !.usersInRoom = Append(@, event)]

-----------------------------------------------------------------------------
(* dubtrack.js: the Bot facade *)

\* the event names that have an entry in _eventTranslatorMap
TranslatedEventNames ==
    {"chat-skip", "chat-message", "delete-chat-message", "room_playlist-queue-update-grabs",
     "modSkip", "room_playlist-update", "room_playlist-queue-update-dub", "user-ban",
     "user-join", "user-leave", "user-mute", "user-unmute", "user_update",
     "room_playlist-dub"}

\* _eventTranslatorMap[eventName](event)
_eventTranslatorMap(eventName, event, now) ==
    CASE eventName = "chat-skip" -> translateSkipEvent(event)
      [] eventName = "chat-message" -> translateChatEvent(event)
      [] eventName = "delete-chat-message" -> translateChatDeleteEvent(event)
      [] eventName = "room_playlist-queue-update-grabs" -> translateGrabEvent(event)
      [] eventName = "modSkip" -> translateModSkipEvent(event)
      [] eventName = "room_playlist-update" -> translateAdvanceEvent(event, now)
      [] eventName = "room_playlist-queue-update-dub" ->
             translateRoomPlaylistQueueUpdateEvent(event, now)
      [] eventName = "user-ban" -> translateModBanEvent(event, now)
      [] eventName = "user-join" -> translateUserJoinEvent(event, now)
      [] eventName = "user-leave" -> translateUserLeaveEvent(event, now)
      [] eventName = "user-mute" -> translateModMuteEvent(event, now)
      [] eventName = "user-unmute" -> translateModMuteEvent(event, now)
      [] eventName = "user_update" -> translateUserUpdateEvent(event, now)
      [] eventName = "room_playlist-dub" -> translateVoteEvent(event, now)

\* the names of the properties an object literal inherits from Object.prototype
ObjectPrototypeNames ==
    {"constructor", "toString", "valueOf", "hasOwnProperty", "__proto__"}

\* this.eventHandlers after the constructor: an object literal with one empty
\* array per value of Types.Event
NoListeners == [eventName \in Range(Event) |-> <<>>]

\* a mutant of Bot.prototype.on: the listener goes to the front of the list
on_Unshift(handlers, eventName, callback, context) ==
    IF eventName \in DOMAIN handlers
    THEN [eventHandlers |-> [handlers EXCEPT ![eventName] =
                                 Unshift(@, [callback |-> callback, context |-> context])],
          threw |-> FALSE]
    ELSE [eventHandlers |-> handlers, threw |-> eventName \in ObjectPrototypeNames]

\* Bot.prototype.on: the listener lists afterwards, and whether the call threw.
\* this.eventHandlers[eventName] is the list of a recognized name, undefined
\* for a name the object knows nothing of, and for a name of
\* ObjectPrototypeNames an inherited value, which is truthy and has no push.
on(handlers, eventName, callback, context) ==
    IF eventName \in DOMAIN handlers
    THEN [eventHandlers |-> [handlers EXCEPT ![eventName] =
                                 Append(@, [callback |-> callback, context |-> context])],
          threw |-> FALSE]
    ELSE [eventHandlers |-> handlers, threw |-> eventName \in ObjectPrototypeNames]

\* the tracker's subscriptions, in the order init makes them
TrackerSubscriptions ==
    <<[eventName |-> Event.ADVANCE, callback |-> "onAdvance"],
      [eventName |-> Event.CHAT, callback |-> "onChat"],
      [eventName |-> Event.CHAT_DELETE, callback |-> "onChatDelete"],
      [eventName |-> Event.GRAB, callback |-> "onGrab"],
      [eventName |-> Event.ROOM_PLAYLIST_QUEUE_UPDATE,
       callback |-> "onRoomPlaylistQueueUpdate"],
      [eventName |-> Event.USER_LEAVE, callback |-> "onUserLeave"],
      [eventName |-> Event.USER_JOIN, callback |-> "onUserJoin"],
      [eventName |-> Event.VOTE, callback |-> "onVote"]>>

\* bot.on for each element of registrations, from index i on
RECURSIVE onEach(_, _, _)
onEach(handlers, registrations, i) ==
    IF i > Len(registrations) THEN handlers
    ELSE onEach(on(handlers, registrations[i].eventName, registrations[i].callback,
                   PropStr(registrations[i], "context")).eventHandlers,
                registrations, i + 1)

\* the bot.on calls of init
subscribe(handlers) == onEach(handlers, TrackerSubscriptions, 1)

\* the outcome of one listener called with event while the snapshot is rs:
\* the snapshot and the event afterwards, the command callbacks it invoked,
\* and whether it threw. A listener of an event_listeners module only
\* observes.
callListener(name, event, rs, cfg, cmds, now) ==
    LET done(rs2) == [roomState |-> rs2, event |-> event, calls |-> <<>>, threw |-> FALSE]
        thrown == [roomState |-> rs, event |-> event, calls |-> <<>>, threw |-> TRUE]
    IN  CASE name = "onAdvance" -> done(onAdvance(rs, event, cfg, now))
          [] name = "onChat" -> done(onChat(rs, event, cfg, now))
          [] name = "onChatDelete" ->
                 [roomState |-> onChatDelete(rs, event, now),
                  event |-> With(event, "deletedMessages", deletedMessages(rs, event, now)),
                  calls |-> <<>>, threw |-> FALSE]
          [] name = "onGrab" -> IF NoCurrentSong(rs) THEN thrown ELSE done(onGrab(rs, event))
          [] name = "onRoomPlaylistQueueUpdate" -> done(onRoomPlaylistQueueUpdate(rs, event))
          [] name = "onUserLeave" -> done(onUserLeave(rs, event))
          [] name = "onUserJoin" -> done(onUserJoin(rs, event))
          [] name = "onVote" -> IF NoCurrentSong(rs) THEN thrown ELSE done(onVote(rs, event))
          [] name = "commandHandler" ->
                 LET routed == commandHandler(cmds, event, cfg)
                 IN  [roomState |-> rs, event |-> event, calls |-> routed.calls,
                      threw |-> routed.threw]
          [] OTHER -> done(rs)

\* an entry of the history of a delivery: the listener called, the event it
\* was given and the snapshot it found
Invocation(handler, event, rs) ==
    [callback |-> handler.callback, context |-> handler.context, event |-> event,
     roomState |-> rs]

\* a mutant of the dispatcher's loop: it runs from the last listener to the first
RECURSIVE dispatchLoop_Backwards(_, _, _, _, _, _, _)
dispatchLoop_Backwards(handlers, i, internalObject, rs, cfg, cmds, now) ==
    IF i > Len(handlers) THEN [roomState |-> rs, invoked |-> <<>>, calls |-> <<>>,
                               threw |-> FALSE]
    ELSE LET handler == handlers[Len(handlers) + 1 - i]
             outcome == callListener(handler.callback, internalObject, rs, cfg, cmds, now)
             entry == Invocation(handler, internalObject, rs)
             rest == dispatchLoop_Backwards(handlers, i + 1, outcome.event,
                                            outcome.roomState, cfg, cmds, now)
         IN  IF outcome.threw
             THEN [roomState |-> outcome.roomState, invoked |-> <<entry>>,
                   calls |-> outcome.calls, threw |-> TRUE]
             ELSE [roomState |-> rest.roomState, invoked |-> <<entry>> \o rest.invoked,
                   calls |-> outcome.calls \o rest.calls, threw |-> rest.threw]

\* the loop of the dispatcher from index i (1-based) on: an exception of a
\* listener leaves the loop and the dispatcher
RECURSIVE dispatchLoop(_, _, _, _, _, _, _)
dispatchLoop(handlers, i, internalObject, rs, cfg, cmds, now) ==
    IF i > Len(handlers) THEN [roomState |-> rs, invoked |-> <<>>, calls |-> <<>>,
                               threw |-> FALSE]
    ELSE LET handler == handlers[i]
             outcome == callListener(handler.callback, internalObject, rs, cfg, cmds, now)
             entry == Invocation(handler, internalObject, rs)
             rest == dispatchLoop(handlers, i + 1, outcome.event, outcome.roomState,
                                  cfg, cmds, now)
         IN  IF outcome.threw
             THEN [roomState |-> outcome.roomState, invoked |-> <<entry>>,
                   calls |-> outcome.calls, threw |-> TRUE]
             ELSE [roomState |-> rest.roomState, invoked |-> <<entry>> \o rest.invoked,
                   calls |-> outcome.calls \o rest.calls, threw |-> rest.threw]

\* the function _createEventDispatcher(internalEventName, ...) returns, applied
\* to a vendor event: the translated event, the snapshot afterwards, the
\* listeners invoked, the command callbacks invoked, and whether it threw
_createEventDispatcher(internalEventName, event, handlersOf, rs, cfg, cmds, now) ==
    LET handlers == handlersOf[internalEventName]
        nothing == [roomState |-> rs, invoked |-> <<>>, calls |-> <<>>, threw |-> FALSE]
    IN  IF internalEventName \notin TranslatedEventNames
        THEN nothing @@ [internal |-> undefinedObj]
        ELSE LET internalObject == _eventTranslatorMap(internalEventName, event, now)
             IN  IF ~Truthy(internalObject)
                 THEN nothing @@ [internal |-> internalObject]
                 ELSE dispatchLoop(handlers, 1,
                                   With(internalObject, "eventName", internalEventName),
                                   rs, cfg, cmds, now)
                      @@ [internal |-> With(internalObject, "eventName", internalEventName)]

-----------------------------------------------------------------------------
(* dubtrack.js: connect and the outbound actions *)

\* the vendor client before any request
NoRequests == <<>>

\* A request issued to the vendor client: the method called, the completion
\* callback the caller of the Bot gave (undefined when none), whether the
\* client reported the request as queued and whether it has completed it.
\* results is a history field: the values the caller's callback has been
\* invoked with, in order.
Request(method, callback, wasQueued, results) ==
    [method |-> method, callback |-> callback, wasQueued |-> wasQueued,
     completed |-> FALSE, results |-> results]

\* Bot.prototype.connect: this.bot.connect(roomName)
connect(roomName) ==
    [method |-> "connect", roomName |-> roomName, callback |-> undefined,
     wasQueued |-> TRUE, completed |-> TRUE, results |-> <<>>]

\* a mutant of the 'disconnected' listener: it reconnects twice
onDisconnected_Twice(roomName) == <<connect(roomName), connect(roomName)>>

\* the 'disconnected' listener of the constructor: the requests it issues
onDisconnected(roomName) == <<connect(roomName)>>

\* the body shared by the actions that test their callback: the request, with
\* the callback invoked with false when queuing failed and a callback was given
queueAction(method, callback, wasQueued) ==
    Request(method, callback, wasQueued,
            IF ~wasQueued /\ callback # undefined THEN <<FALSE>> ELSE <<>>)

\* a mutant of forceSkip: the callback is invoked with false whatever the
\* client reports
forceSkip_AlwaysFalse(callback, wasSkipQueued) ==
    Request("moderateForceSkip", callback, wasSkipQueued,
            IF callback # undefined THEN <<FALSE>> ELSE <<>>)

forceSkip(callback, wasSkipQueued) ==
    queueAction("moderateForceSkip", callback, wasSkipQueued)

grabSong(callback, wasGrabQueued) == queueAction("grab", callback, wasGrabQueued)

joinWaitList(callback, wasJoinQueued) == queueAction("joinBooth", callback, wasJoinQueued)

leaveWaitList(callback, wasLeaveQueued) == queueAction("leaveBooth", callback, wasLeaveQueued)

mehSong(callback, wasMehQueued) == queueAction("meh", callback, wasMehQueued)

wootSong(callback, wasWootQueued) == queueAction("woot", callback, wasWootQueued)

moveDjInWaitList(userID, newPosition, callback, wasRequestQueued) ==
    With(With(queueAction("moderateMoveDJ", callback, wasRequestQueued),
              "userID", userID), "newPosition", newPosition)

\* the function the Bot hands to the vendor client, run when the client
\* completes the request: the request afterwards and whether the function
\* threw. The function of moveDjInWaitList calls callback without testing it.
onComplete(request) ==
    IF request.method = "moderateMoveDJ"
    THEN IF request.callback = undefined
         THEN [request |-> [request EXCEPT !.completed = TRUE], threw |-> TRUE]
         ELSE [request |-> [request EXCEPT !.completed = TRUE,
                                           !.results = Append(@, TRUE)],
               threw |-> FALSE]
    ELSE [request |-> [request EXCEPT !.completed = TRUE,
                                      !.results = IF request.callback # undefined
                                                  THEN Append(@, TRUE) ELSE @],
          threw |-> FALSE]

-----------------------------------------------------------------------------
(* The environment: what the vendor client delivers *)

\* the users of the tracker's specifications
UserIDs == {"u1", "u2"}
\* the users who chat in the command router's specification
ChatterIDs == {"u1", "u2", "u3", "u4"}

\* the vendor role identifiers translateRole lists
ListedRoleIDs ==
    {"5615fa9ae596154a5c000000", "5615fd84e596150061000003", "52d1ce33c38a06510c000001",
     "5615fe1ee596154fc2000001", "5615feb8e596154fc2000002", "564435423f6ba174d2000001"}

\* u1 is a mod, u2 has an unlisted role, u3 is a manager, u4 is a DJ
VendorRoleOf(id) ==
    CASE id = "u1" -> "52d1ce33c38a06510c000001"
      [] id = "u3" -> "5615fd84e596150061000003"
      [] id = "u4" -> "564435423f6ba174d2000001"
      [] OTHER -> "000000000000000000000000"

VendorNameOf(id) ==
    CASE id = "u1" -> "alice"
      [] id = "u2" -> "bob"
      [] id = "u3" -> "carol"
      [] OTHER -> "dave"

\* a user object of the vendor client
VendorUser(id) ==
    [id |-> id, username |-> VendorNameOf(id), role |-> VendorRoleOf(id),
     created |-> Num(1), dubs |-> 0, playedCount |-> 0]

MediaIDs == {"m1", "m2"}

\* a media object of the vendor client
VendorMedia(fkid) == [fkid |-> fkid, songLength |-> 3000, name |-> fkid]

\* the users getUsers returns (pairwise distinct IDs), with their grab and vote flags
Flags == {[grab |-> FALSE, vote |-> 0], [grab |-> TRUE, vote |-> 1], [grab |-> FALSE, vote |-> -1]}
Fetched(id, flags) == With(With(VendorUser(id), "grab", flags.grab), "vote", flags.vote)
FetchedUserLists ==
    {<<>>}
    \cup {<<Fetched("u1", f)>> : f \in Flags}
    \cup {<<Fetched("u1", [grab |-> FALSE, vote |-> 1]),
            Fetched("u2", [grab |-> TRUE, vote |-> -1])>>}

\* the media and the DJ that getMedia and getDJ return in a room where a song
\* is playing, and a getUsers result of one user who grabbed and wooted
RoomMedia == VendorMedia("m1")
RoomDj == VendorUser("u1")
OneFetchedUser == <<Fetched("u1", [grab |-> TRUE, vote |-> 1])>>

\* what getMedia and getDJ return
FetchedRooms ==
    {[media |-> VendorMedia("m1"), dj |-> VendorUser("u1")],
     [media |-> undefinedObj,      dj |-> VendorUser("u1")],
     [media |-> VendorMedia("m1"), dj |-> undefinedObj]}

\* room_playlist-update payloads
AdvanceEvents ==
    {[user |-> VendorUser("u1"), media |-> VendorMedia("m1")],
     [user |-> VendorUser("u2"), media |-> VendorMedia("m2"), startTime |-> Num(9)],
     [media |-> VendorMedia("m1")],
     [user |-> VendorUser("u1")]}

\* room_playlist-queue-update-grabs payloads: the event is the grabbing user's ID
GrabEvents == {"u1"}

\* room_playlist-dub payloads
VoteEvents ==
    {[dubtype |-> t, user |-> VendorUser(u)] : t \in {"updub", "downdub", "dub"}, u \in UserIDs}

\* the text of the chat messages delivered to the tracker
ChatTexts == {<<"h", "i">>}

ConfigValues(playMax, chatMax) ==
    [numberOfPlayedSongsToStore |-> playMax,
     numberOfChatEventsToStore  |-> chatMax,
     areCommandsCaseSensitive   |-> FALSE]

-----------------------------------------------------------------------------
(* Actions: one per delivery of a vendor event to the tracker *)

NoOp == [op |-> "none"]

\* StateTracker.init
TrackerInit(media, dj, users, elapsedTime) ==
    /\ phase = "connected"
    /\ roomState' = init(media, dj, users, elapsedTime, clock)
    /\ phase' = "running"
    /\ lastOp' = [op |-> "init", media |-> media, dj |-> dj, users |-> users]
    /\ eventHandlers' = subscribe(eventHandlers)
    /\ UNCHANGED <<config, clock, commands, calls, transport>>

\* a room_playlist-update event: translateAdvanceEvent, then onAdvance
Advance(event) ==
    /\ phase = "running"
    /\ clock' = clock + 1
    /\ LET internal == translateAdvanceEvent(event, clock')
       IN  /\ roomState' = IF Truthy(internal)
                           THEN onAdvance(roomState, internal, config, clock')
                           ELSE roomState
           /\ lastOp' = [op |-> "advance", event |-> event, internal |-> internal,
                         threw |-> FALSE]
    /\ UNCHANGED <<config, phase, commands, calls, eventHandlers, transport>>

\* a room_playlist-queue-update-grabs event: translateGrabEvent, then onGrab
Grab(event) ==
    /\ phase = "running"
    /\ LET internal == translateGrabEvent(event)
       IN  /\ roomState' = IF NoCurrentSong(roomState) THEN roomState
                           ELSE onGrab(roomState, internal)
           /\ lastOp' = [op |-> "grab", event |-> event, internal |-> internal,
                         threw |-> NoCurrentSong(roomState),
                         wasPresent |-> /\ ~NoCurrentSong(roomState)
                                        /\ IndexOf(roomState.playHistory[1].votes.grabs,
                                                   internal.userID) >= 0]
    /\ UNCHANGED <<config, phase, clock, commands, calls, eventHandlers, transport>>

\* a room_playlist-dub event: translateVoteEvent, then onVote
Vote(event) ==
    /\ phase = "running"
    /\ LET internal == translateVoteEvent(event, clock)
       IN  /\ roomState' = IF ~Truthy(internal) \/ NoCurrentSong(roomState) THEN roomState
                           ELSE onVote(roomState, internal)
           /\ lastOp' = [op |-> "vote", event |-> event, internal |-> internal,
                         threw |-> Truthy(internal) /\ NoCurrentSong(roomState)]
    /\ UNCHANGED <<config, phase, clock, commands, calls, eventHandlers, transport>>

\* a chat-message event: translateChatEvent, then onChat, then the command router
Chat(text, userID) ==
    /\ phase = "running"
    /\ clock' = clock + 1
    /\ LET event == [id |-> clock', message |-> text, type |-> "chat-message",
                     user |-> VendorUser(userID)]
           internal == translateChatEvent(event)
           routed == commandHandler(commands, internal, config)
       IN  /\ roomState' = onChat(roomState, internal, config, clock')
           /\ calls' = routed.calls
           /\ lastOp' = [op |-> "chat", event |-> event, internal |-> internal,
                         threw |-> routed.threw]
    /\ UNCHANGED <<config, phase, commands, eventHandlers, transport>>

\* a delete-chat-message event: translateChatDeleteEvent, then onChatDelete
ChatDelete(chatID, modID) ==
    /\ phase = "running"
    /\ LET event == [id |-> chatID, user |-> VendorUser(modID)]
           internal == translateChatDeleteEvent(event)
       IN  /\ roomState' = onChatDelete(roomState, internal, clock)
           /\ lastOp' = [op |-> "chatDelete", event |-> event,
                         internal |-> With(internal, "deletedMessages",
                                           deletedMessages(roomState, internal, clock)),
                         threw |-> FALSE]
    /\ UNCHANGED <<config, phase, clock, commands, calls, eventHandlers, transport>>

-----------------------------------------------------------------------------
(* The tracker's play history: initialization, Advance, Grab and Vote *)

InitPlays ==
    /\ config \in {ConfigValues(p, MaxStore) : p \in 0..MaxStore}
    /\ roomState = undefinedObj
    /\ phase = "connected"
    /\ clock = 0
    /\ lastOp = NoOp
    /\ commands = <<>>
    /\ calls = <<>>
    /\ eventHandlers = NoListeners
    /\ transport = NoRequests

NextPlays ==
    \/ \E room \in FetchedRooms, users \in FetchedUserLists :
           TrackerInit(room.media, room.dj, users, 1)
    \/ \E event \in AdvanceEvents : clock < MaxAdvances /\ Advance(event)
    \/ \E event \in GrabEvents : Grab(event)
    \/ \E event \in VoteEvents : Vote(event)

SpecPlays == InitPlays /\ [][NextPlays]_vars

-----------------------------------------------------------------------------
(* The tracker's chat history: Chat and Chat Delete *)

InitChat ==
    /\ config \in {ConfigValues(MaxStore, c) : c \in 0..MaxChats}
    /\ roomState = undefinedObj
    /\ phase = "connected"
    /\ clock = 0
    /\ lastOp = NoOp
    /\ commands = <<>>
    /\ calls = <<>>
    /\ eventHandlers = NoListeners
    /\ transport = NoRequests

NextChat ==
    \/ TrackerInit(RoomMedia, RoomDj, <<>>, 1)
    \/ \E text \in ChatTexts, userID \in UserIDs : clock < MaxChats /\ Chat(text, userID)
    \/ \E chatID \in 1..MaxChats : ChatDelete(chatID, "u1")

SpecChat == InitChat /\ [][NextChat]_vars

-----------------------------------------------------------------------------
(* The translator's pure functions, each applied once to an input *)

\* the characters of the chat messages
Chars == {"!", "/", "m", "e", " ", "a"}

\* every message of at most MaxMessageLen characters, and the two of the specification
Messages ==
    UNION {[1..n -> Chars] : n \in 0..MaxMessageLen}
    \cup {<<"!", "w", "o", "o", "t", " ", "a", " ", "b">>,
          <<"/", "m", "e", " ", "d", "a", "n", "c", "e", "s">>}

\* chat-message payloads: with a user, or with the user under raw only
ChatEvents ==
    {[id |-> 1, message |-> m, type |-> "chat-message", user |-> VendorUser("u1")] :
        m \in Messages}
    \cup {[id |-> 1, message |-> <<"!", "a">>, type |-> t,
           raw |-> [user |-> [_id |-> "u2", username |-> "bob",
                              roleid |-> "564435423f6ba174d2000001"]]] :
             t \in {"chat-message", "chat-other"}}

RoleInputs == ListedRoleIDs \cup {"000000000000000000000000", undefined, "null"}

LastPlays ==
    {[user |-> VendorUser("u2"), media |-> VendorMedia("m2"),
      score |-> [grabs |-> 1, downdubs |-> 0, updubs |-> 2]],
     [user |-> VendorUser("u2"), media |-> VendorMedia("m2")]}

\* room_playlist-update payloads: user, media, startTime and lastPlay each present or not
AdvanceInputs ==
    LET users == {[user |-> VendorUser(u)] : u \in UserIDs} \cup {<<>>}
        medias == {[media |-> VendorMedia(m)] : m \in MediaIDs} \cup {<<>>}
        times == {[startTime |-> Num(t)] : t \in {-3, 0, 7}} \cup {<<>>}
        lasts == {[lastPlay |-> l] : l \in LastPlays} \cup {<<>>}
    IN  {u @@ m @@ t @@ l : u \in users, m \in medias, t \in times, l \in lasts}

\* the local times at which an Advance is observed
Nows == {20, 21}

\* each behaviour of SpecTranslator applies one function once (NextTranslator's guard)
CallTranslateRole(role) ==
    /\ lastOp' = [op |-> "translateRole", role |-> role, result |-> translateRole(role)]
    /\ UNCHANGED <<config, roomState, phase, clock, commands, calls, eventHandlers, transport>>

CallTranslateChatEvent(event) ==
    /\ lastOp' = [op |-> "translateChatEvent", event |-> event,
                  result |-> translateChatEvent(event)]
    /\ UNCHANGED <<config, roomState, phase, clock, commands, calls, eventHandlers, transport>>

CallTranslateAdvanceEvent(event, now) ==
    /\ clock' = now
    /\ lastOp' = [op |-> "translateAdvanceEvent", event |-> event,
                  result |-> translateAdvanceEvent(event, now)]
    /\ UNCHANGED <<config, roomState, phase, commands, calls, eventHandlers, transport>>

InitTranslator ==
    /\ config = ConfigValues(MaxStore, MaxStore)
    /\ roomState = undefinedObj
    /\ phase = "connected"
    /\ clock = 0
    /\ lastOp = NoOp
    /\ commands = <<>>
    /\ calls = <<>>
    /\ eventHandlers = NoListeners
    /\ transport = NoRequests

NextTranslator ==
    \/ lastOp = NoOp /\ \E role \in RoleInputs : CallTranslateRole(role)
    \/ lastOp = NoOp /\ \E event \in ChatEvents : CallTranslateChatEvent(event)
    \/ lastOp = NoOp /\ \E event \in AdvanceInputs, now \in Nows :
                            CallTranslateAdvanceEvent(event, now)

SpecTranslator == InitTranslator /\ [][NextTranslator]_vars

-----------------------------------------------------------------------------
(* The command router: chat deliveries with command modules registered *)

\* the trigger lists of the command modules
TriggerLists == {<<<<"s">>>>, <<<<"S">>>>, <<<<"b">>, <<"s">>>>}

\* a command module: triggers and handler, minimumRole and
\* insufficientPermissionsHandler optional
CommandModules ==
    LET required == {[triggers |-> t, handler |-> "handler"] : t \in TriggerLists}
        roles == {[minimumRole |-> r] : r \in {Role.DJ, Role.MOD}} \cup {<<>>}
        hooks == {[insufficientPermissionsHandler |-> "insufficientPermissionsHandler"],
                  <<>>}
    IN  {m @@ r @@ h : m \in required, r \in roles, h \in hooks}

\* the chat messages sent to the command router
CommandTexts == {<<"!", "s">>, <<"!", "S">>, <<"!", "b">>, <<"!">>, <<"s">>}

InitCommands ==
    /\ config \in {[ConfigValues(MaxStore, 0) EXCEPT !.areCommandsCaseSensitive = b] :
                      b \in BOOLEAN}
    /\ roomState = undefinedObj
    /\ phase = "connected"
    /\ clock = 0
    /\ lastOp = NoOp
    /\ commands \in {<<>>} \cup {<<m>> : m \in CommandModules}
                    \cup {<<m, n>> : m \in CommandModules,
                                     n \in {c \in CommandModules : c.triggers = <<<<"s">>>>}}
    /\ calls = <<>>
    /\ eventHandlers = NoListeners
    /\ transport = NoRequests

NextCommands ==
    \/ TrackerInit(RoomMedia, RoomDj, <<>>, 1)
    \/ \E text \in CommandTexts, userID \in ChatterIDs :
           clock < MaxCommandChats /\ Chat(text, userID)

SpecCommands == InitCommands /\ [][NextCommands]_vars

-----------------------------------------------------------------------------
(* The Bot facade: startup, registration of listeners and dispatch *)

\* number of vendor events delivered in a behaviour of SpecBot (each takes
\* one clock tick)
MaxDeliveries == 3
\* largest number of listeners of one event name in SpecBot
MaxListeners == 4

\* the bot.on calls _registerEventListeners makes for one module that exports
\* a listener for each of eventNames
Listens(callback, context, eventNames) ==
    [i \in 1..Len(eventNames) |->
        [eventName |-> eventNames[i], callback |-> callback, context |-> context]]

\* the event_listeners directory: empty, or one module in the object form, with
\* a context, and one in the function form (context null)
ListenerModules ==
    LET p1 == Listens("p1", "ctx1",
                      <<Event.ADVANCE, Event.CHAT, Event.GRAB,
                        Event.ROOM_PLAYLIST_QUEUE_UPDATE, Event.ROOM_UPDATE,
                        Event.USER_JOIN, Event.USER_LEAVE, Event.USER_UPDATE,
                        Event.VOTE>>)
        p2 == Listens("p2", "null", <<Event.GRAB, Event.USER_JOIN, Event.VOTE>>)
    IN  {<<>>, p1 \o p2}

\* the bot.on calls of _registerEventListeners, in order
_registerEventListeners(handlers, registrations) == onEach(handlers, registrations, 1)

\* the user lists getUsers returns in SpecBot (pairwise distinct IDs)
FetchedUsers ==
    {<<>>,
     <<Fetched("u1", [grab |-> FALSE, vote |-> 0])>>,
     <<Fetched("u1", [grab |-> TRUE, vote |-> 1]),
       Fetched("u2", [grab |-> FALSE, vote |-> 0])>>}

\* room_playlist-queue-update-dub payloads
QueueUpdateEvents ==
    {[room |-> "r1"],
     [queue |-> <<[media |-> VendorMedia("m1"), user |-> VendorUser("u1")]>>],
     [queue |-> <<[media |-> VendorMedia("m2"), user |-> VendorUser("u2")],
                  [media |-> VendorMedia("m1"), user |-> VendorUser("u1")]>>]}

\* user-join, user-leave and user_update payloads
UserEvents == {[user |-> VendorUser(u)] : u \in UserIDs} \cup {[room |-> "r1"]}

\* the vendor events delivered in SpecBot whose payload is an object
Deliveries ==
    {[eventName |-> Event.ADVANCE, event |-> e] :
        e \in {[user |-> VendorUser("u2"), media |-> VendorMedia("m2")],
               [media |-> VendorMedia("m1")]}}
    \cup {[eventName |-> Event.VOTE, event |-> [dubtype |-> t, user |-> VendorUser("u1")]] :
             t \in {"updub", "dub"}}
    \cup {[eventName |-> Event.CHAT,
           event |-> [id |-> "c1", message |-> <<"!", "s">>, type |-> "chat-message",
                      user |-> VendorUser("u2")]]}
    \cup {[eventName |-> n, event |-> [room |-> "r1"]] :
             n \in {Event.ROOM_PLAYLIST_QUEUE_UPDATE, Event.USER_JOIN, Event.USER_LEAVE,
                    Event.ROOM_UPDATE}}
    \cup {[eventName |-> Event.USER_UPDATE, event |-> e] :
             e \in {[user |-> VendorUser("u1")], [room |-> "r1"]}}

\* the vendor events delivered in SpecUsers
UserDeliveries ==
    {[eventName |-> Event.ROOM_PLAYLIST_QUEUE_UPDATE, event |-> e] : e \in QueueUpdateEvents}
    \cup {[eventName |-> n, event |-> e] :
             n \in {Event.USER_JOIN, Event.USER_LEAVE}, e \in UserEvents}

\* the event names given to Bot.on after startup
OnEventNames == {Event.GRAB, "constructor", "no-such-event"}

\* innerConnectionCompleteCallback of start: StateTracker.init, whose
\* completion callback registers the listener modules and then the command
\* router (the command modules are in commands)
Start(media, dj, users, elapsedTime, registrations) ==
    /\ phase = "connected"
    /\ roomState' = init(media, dj, users, elapsedTime, clock)
    /\ eventHandlers' =
           on(_registerEventListeners(subscribe(eventHandlers), registrations),
              Event.CHAT, "commandHandler", undefined).eventHandlers
    /\ phase' = "running"
    /\ lastOp' = [op |-> "start", registrations |-> registrations]
    /\ UNCHANGED <<config, clock, commands, calls, transport>>

\* Bot.prototype.on called by a listener module or a command module after
\* startup
On(eventName, callback, context) ==
    /\ phase = "running"
    /\ eventName \in DOMAIN eventHandlers => Len(eventHandlers[eventName]) < MaxListeners
    /\ LET registered == on(eventHandlers, eventName, callback, context)
       IN  /\ eventHandlers' = registered.eventHandlers
           /\ lastOp' = [op |-> "on", eventName |-> eventName, threw |-> registered.threw,
                         handlers |-> eventHandlers]
    /\ UNCHANGED <<config, roomState, phase, clock, commands, calls, transport>>

\* the vendor client emits an event: the dispatcher of that event name runs
Deliver(eventName, event) ==
    /\ clock' = clock + 1
    /\ LET dispatched == _createEventDispatcher(eventName, event, eventHandlers, roomState,
                                                config, commands, clock')
       IN  /\ roomState' = dispatched.roomState
           /\ calls' = dispatched.calls
           /\ lastOp' = [op |-> "deliver", eventName |-> eventName, event |-> event,
                         internal |-> dispatched.internal,
                         handlers |-> eventHandlers[eventName],
                         before |-> roomState,
                         invoked |-> dispatched.invoked,
                         threw |-> dispatched.threw]
    /\ UNCHANGED <<config, phase, commands, eventHandlers, transport>>

InitBot ==
    /\ config = ConfigValues(1, 1)
    /\ roomState = undefinedObj
    /\ phase = "connected"
    /\ clock = 0
    /\ lastOp = NoOp
    /\ commands = <<[triggers |-> <<<<"s">>>>, handler |-> "handler"]>>
    /\ calls = <<>>
    /\ eventHandlers = NoListeners
    /\ transport = NoRequests

NextBot ==
    \/ \E room \in FetchedRooms, registrations \in ListenerModules :
           Start(room.media, room.dj, OneFetchedUser, 1, registrations)
    \/ \E eventName \in OnEventNames : On(eventName, "p3", undefined)
    \/ clock < MaxDeliveries /\ \E d \in Deliveries : Deliver(d.eventName, d.event)
    \/ clock < MaxDeliveries /\ \E userID \in GrabEvents : Deliver(Event.GRAB, userID)

SpecBot == InitBot /\ [][NextBot]_vars

-----------------------------------------------------------------------------
(* The tracker's user list and wait list *)

NextUsers ==
    \/ \E users \in FetchedUsers, registrations \in ListenerModules :
           Start(RoomMedia, RoomDj, users, 1, registrations)
    \/ clock < MaxDeliveries /\ \E d \in UserDeliveries : Deliver(d.eventName, d.event)

SpecUsers == InitBot /\ [][NextUsers]_vars

-----------------------------------------------------------------------------
(* The Bot facade: the requests issued to the vendor client *)

\* number of requests issued to the vendor client in a behaviour of SpecOutbound
MaxRequests == 2

\* the completion callbacks given to the outbound actions
Callbacks == {"callback", undefined}

RoomNames == {"r1", "r2"}

\* the request is issued; the values its callback is invoked with during the
\* call are in its results
Issue(op, request) ==
    /\ Len(transport) < MaxRequests
    /\ transport' = Append(transport, request)
    /\ calls' = [i \in 1..Len(request.results) |->
                    [request |-> Len(transport) + 1, value |-> request.results[i]]]
    /\ lastOp' = [op |-> op, request |-> Len(transport) + 1, threw |-> FALSE]
    /\ UNCHANGED <<config, roomState, phase, clock, commands, eventHandlers>>

ForceSkip(callback, wasQueued) == Issue("forceSkip", forceSkip(callback, wasQueued))

GrabSong(callback, wasQueued) == Issue("grabSong", grabSong(callback, wasQueued))

JoinWaitList(callback, wasQueued) == Issue("joinWaitList", joinWaitList(callback, wasQueued))

LeaveWaitList(callback, wasQueued) == Issue("leaveWaitList", leaveWaitList(callback, wasQueued))

MehSong(callback, wasQueued) == Issue("mehSong", mehSong(callback, wasQueued))

WootSong(callback, wasQueued) == Issue("wootSong", wootSong(callback, wasQueued))

MoveDjInWaitList(userID, newPosition, callback, wasQueued) ==
    Issue("moveDjInWaitList", moveDjInWaitList(userID, newPosition, callback, wasQueued))

\* the vendor client completes a request it had queued, once: it runs the
\* function the Bot gave it
Complete(i) ==
    /\ transport[i].wasQueued /\ ~transport[i].completed
    /\ LET ran == onComplete(transport[i])
       IN  /\ transport' = [transport EXCEPT ![i] = ran.request]
           /\ calls' = IF Len(ran.request.results) > Len(transport[i].results)
                       THEN <<[request |-> i, value |-> TRUE]>> ELSE <<>>
           /\ lastOp' = [op |-> "complete", request |-> i, threw |-> ran.threw]
    /\ UNCHANGED <<config, roomState, phase, clock, commands, eventHandlers>>

\* the vendor client emits 'disconnected'
Disconnected(roomName) ==
    /\ Len(transport) < MaxRequests
    /\ transport' = transport \o onDisconnected(roomName)
    /\ calls' = <<>>
    /\ lastOp' = [op |-> "disconnected", roomName |-> roomName,
                  request |-> Len(transport) + 1, threw |-> FALSE]
    /\ UNCHANGED <<config, roomState, phase, clock, commands, eventHandlers>>

InitOutbound ==
    /\ config = ConfigValues(1, 1)
    /\ roomState = undefinedObj
    /\ phase = "connected"
    /\ clock = 0
    /\ lastOp = NoOp
    /\ commands = <<>>
    /\ calls = <<>>
    /\ eventHandlers = NoListeners
    /\ transport = NoRequests

NextOutbound ==
    \/ \E callback \in Callbacks, wasQueued \in BOOLEAN : ForceSkip(callback, wasQueued)
    \/ \E callback \in Callbacks, wasQueued \in BOOLEAN : GrabSong(callback, wasQueued)
    \/ \E callback \in Callbacks, wasQueued \in BOOLEAN : JoinWaitList(callback, wasQueued)
    \/ \E callback \in Callbacks, wasQueued \in BOOLEAN : LeaveWaitList(callback, wasQueued)
    \/ \E callback \in Callbacks, wasQueued \in BOOLEAN : MehSong(callback, wasQueued)
    \/ \E callback \in Callbacks, wasQueued \in BOOLEAN : WootSong(callback, wasQueued)
    \/ \E callback \in Callbacks, wasQueued \in BOOLEAN :
           MoveDjInWaitList("u1", 1, callback, wasQueued)
    \/ \E i \in 1..Len(transport) : Complete(i)
    \/ \E roomName \in RoomNames : Disconnected(roomName)

SpecOutbound == InitOutbound /\ [][NextOutbound]_vars

-----------------------------------------------------------------------------
(* Properties *)

\* the number of occurrences of x in the array arr
Count(arr, x) == Cardinality({k \in 1..Len(arr) : arr[k] = x})

NoDuplicates(arr) == \A x \in Range(arr) : Count(arr, x) = 1

\* C1: after initialization and any sequence of Advance events, playHistory
\* is never longer than numberOfPlayedSongsToStore, every index holds a Play
\* that arrived later than the Plays at the indexes after it, and right after
\* an Advance index 0 is the Play that Advance created.
C1_PlayHistoryCappedMostRecentFirst ==
    phase = "running" =>
        LET playHistory == roomState.playHistory
        IN  /\ Len(playHistory) <= config.numberOfPlayedSongsToStore
            /\ \A i, j \in 1..Len(playHistory) :
                   i < j => playHistory[i].arrival > playHistory[j].arrival
            /\ (lastOp.op = "advance" /\ Truthy(lastOp.internal)) =>
                   /\ playHistory # <<>>
                   /\ playHistory[1].arrival = clock
                   /\ playHistory[1].media = lastOp.internal.media
                   /\ playHistory[1].user = lastOp.internal.incomingDJ

\* C2: after a vote event (updub or downdub) of a user has been translated
\* and applied to the current Play, that user's ID is in woots and not in
\* mehs if the vote was an updub, in mehs and not in woots if it was a downdub.
C2_VoteReflectsLatestVote ==
    (lastOp.op = "vote" /\ Truthy(lastOp.internal) /\ ~lastOp.threw) =>
        LET votes == roomState.playHistory[1].votes
            userID == lastOp.event.user.id
        IN  IF lastOp.event.dubtype = "updub"
            THEN userID \in Range(votes.woots) /\ userID \notin Range(votes.mehs)
            ELSE userID \in Range(votes.mehs) /\ userID \notin Range(votes.woots)

\* C3: in every Play of playHistory, the Play synthesized at initialization
\* included, no identifier is in both votes.woots and votes.mehs, and none
\* occurs twice in votes.woots or twice in votes.mehs.
C3_VoteListsDisjoint ==
    phase = "running" =>
        \A i \in 1..Len(roomState.playHistory) :
            LET votes == roomState.playHistory[i].votes
            IN  /\ Range(votes.woots) \cap Range(votes.mehs) = {}
                /\ NoDuplicates(votes.woots)
                /\ NoDuplicates(votes.mehs)

\* a vote has been applied to a Play that has entries in both lists
C3_Witness ==
    /\ lastOp.op = "vote" /\ Truthy(lastOp.internal) /\ ~lastOp.threw
    /\ roomState.playHistory[1].votes.woots # <<>>
    /\ roomState.playHistory[1].votes.mehs # <<>>

\* C4: a Grab event for a userID that is already in the current Play's
\* votes.grabs leaves votes.grabs (and the whole snapshot) unchanged, and
\* after any Grab event the userID occurs exactly once in votes.grabs.
C4_GrabIdempotent ==
    [][(lastOp'.op = "grab" /\ ~lastOp'.threw) =>
          LET userID == lastOp'.internal.userID
              before == roomState.playHistory[1].votes.grabs
              after == roomState'.playHistory[1].votes.grabs
          IN  /\ userID \in Range(before) => after = before /\ roomState' = roomState
              /\ Count(after, userID) = 1]_vars

\* a Grab event arrived for a userID that was in votes.grabs already
C4_Witness ==
    /\ lastOp.op = "grab" /\ ~lastOp.threw /\ lastOp.wasPresent
    /\ Len(roomState.playHistory[1].votes.grabs) >= 2

\* M1(userA), M2(userA), M3(userB), M4(userA) have been received in that
\* order and none is deleted: chatHistory, most recent first, is M4 M3 M2 M1
CascadeScenario(history) ==
    /\ Len(history) = 4
    /\ history[4].userID = history[3].userID
    /\ history[4].userID = history[1].userID
    /\ history[2].userID # history[4].userID
    /\ \A i \in 1..4 : ~IsDeleted(history[i])

\* C5: when M1(userA), M2(userA), M3(userB), M4(userA) were received in that
\* order and a Chat Delete event names M1, then afterwards M1 and M2 are
\* deleted and M3 and M4 are not.
C5_ChatDeleteCascade ==
    [][(/\ phase = "running"
        /\ CascadeScenario(roomState.chatHistory)
        /\ lastOp'.op = "chatDelete"
        /\ lastOp'.internal.chatID = roomState.chatHistory[4].chatID) =>
          /\ IsDeleted(roomState'.chatHistory[4])
          /\ IsDeleted(roomState'.chatHistory[3])
          /\ ~IsDeleted(roomState'.chatHistory[2])
          /\ ~IsDeleted(roomState'.chatHistory[1])]_vars

\* C6: translateRole returns, for every input, a member of the role
\* enumeration that has a numeric level, and NONE for an unlisted identifier.
C6_RoleTranslationTotal ==
    lastOp.op = "translateRole" =>
        /\ lastOp.result \in Range(Role)
        /\ lastOp.result.level \in Nat
        /\ lastOp.role \notin ListedRoleIDs => lastOp.result = Role.NONE

\* the number of times the last chat delivery invoked callback fn of commands[i]
Invocations(i, fn) == Count(calls, Call(i, fn))

\* the command router selects command for chatEvent
Selects(command, chatEvent) ==
    /\ "command" \in DOMAIN chatEvent
    /\ chatEvent.command # <<>>
    /\ \E k \in 1..Len(command.triggers) :
           command.triggers[k] = IF config.areCommandsCaseSensitive
                                 THEN chatEvent.command
                                 ELSE ToLowerCase(chatEvent.command)

\* C7: for a chat event that selects a command declaring minimumRole: when the
\* user's role level is below the minimum, the command's
\* insufficientPermissionsHandler is invoked once if it has one and its
\* handler is not invoked; otherwise its handler is invoked once and its
\* insufficientPermissionsHandler is not.
C7_CommandRoleGate ==
    (lastOp.op = "chat" /\ lastOp.internal.userRole # undefinedObj) =>
        \A i \in 1..Len(commands) :
            (Selects(commands[i], lastOp.internal) /\ "minimumRole" \in DOMAIN commands[i]) =>
                IF lastOp.internal.userRole.level < commands[i].minimumRole.level
                THEN /\ Invocations(i, "handler") = 0
                     /\ Invocations(i, "insufficientPermissionsHandler") =
                            IF "insufficientPermissionsHandler" \in DOMAIN commands[i]
                            THEN 1 ELSE 0
                ELSE /\ Invocations(i, "handler") = 1
                     /\ Invocations(i, "insufficientPermissionsHandler") = 0

\* one chat event was refused by one command and accepted by another
C7_Witness ==
    /\ lastOp.op = "chat"
    /\ Len(commands) = 2
    /\ calls = <<Call(1, "insufficientPermissionsHandler"), Call(2, "handler")>>
    /\ "minimumRole" \in DOMAIN commands[2]
    /\ lastOp.internal.userRole.level = commands[2].minimumRole.level

\* the maximal runs of non-whitespace characters of s, in order
RECURSIVE Tokens(_)
Tokens(s) ==
    IF s = <<>> THEN <<>>
    ELSE IF Head(s) \in Whitespace THEN Tokens(Tail(s))
         ELSE LET n == IF \E k \in 1..Len(s) : s[k] \in Whitespace
                       THEN (CHOOSE k \in 1..Len(s) :
                                 /\ s[k] \in Whitespace
                                 /\ \A j \in 1..(k - 1) : s[j] \notin Whitespace) - 1
                       ELSE Len(s)
              IN  <<SubSeq(s, 1, n)>> \o Tokens(SubSeq(s, n + 1, Len(s)))

StartsWithBang(message) == message # <<>> /\ message[1] = "!"

\* "/me " followed by text
IsEmoteText(message) ==
    Len(message) > 4 /\ SubSeq(message, 1, 4) = <<"/", "m", "e", " ">>

\* C8: for a message that starts with "!", translateChatEvent yields type
\* COMMAND, command the first whitespace-delimited token without its leading
\* "!", and args the remaining tokens in order; for a message that neither
\* starts with "!" nor is an emote it yields type MESSAGE and no command.
C8_ChatCommandParsing ==
    lastOp.op = "translateChatEvent" =>
        LET message == lastOp.event.message
            result == lastOp.result
        IN  /\ StartsWithBang(message) =>
                   /\ result.type = ChatType.COMMAND
                   /\ "command" \in DOMAIN result
                   /\ result.command = Tail(Tokens(message)[1])
                   /\ result.args = Tail(Tokens(message))
            /\ (~StartsWithBang(message) /\ ~IsEmoteText(message)) =>
                   /\ result.type = ChatType.MESSAGE
                   /\ "command" \notin DOMAIN result

\* C9: for a message that is "/me " followed by text, translateChatEvent
\* yields type EMOTE and a message field equal to the text without the
\* four-character prefix.
C9_EmoteStripped ==
    (lastOp.op = "translateChatEvent" /\ IsEmoteText(lastOp.event.message)) =>
        /\ lastOp.result.type = ChatType.EMOTE
        /\ lastOp.result.message = Substring(lastOp.event.message, 4)

\* C10: for an Advance payload with user and media, the translated event has
\* the user's username, the media's catalog id, and as startDate the vendor
\* start time when it is present and positive and the local time otherwise;
\* without user or media the result is null.
C10_AdvanceRoundTrip ==
    lastOp.op = "translateAdvanceEvent" =>
        LET event == lastOp.event
            result == lastOp.result
        IN  IF "user" \in DOMAIN event /\ "media" \in DOMAIN event
            THEN /\ result # null
                 /\ result.incomingDJ.username = event.user.username
                 /\ result.media.contentID = event.media.fkid
                 /\ result.startDate =
                        IF "startTime" \in DOMAIN event /\ event.startTime.num > 0
                        THEN Date(event.startTime.num)
                        ELSE Date(clock)
            ELSE result = null

\* a payload with user, media and a positive start time has been translated
C10_Witness ==
    /\ lastOp.op = "translateAdvanceEvent"
    /\ "user" \in DOMAIN lastOp.event /\ "media" \in DOMAIN lastOp.event
    /\ "startTime" \in DOMAIN lastOp.event /\ lastOp.event.startTime.num > 0
    /\ lastOp.result.startDate = Date(lastOp.event.startTime.num)
    /\ lastOp.result.incomingDJ.username = "bob"

\* the last step delivered a vendor event of this name
Delivered(eventName) == lastOp.op = "deliver" /\ lastOp.eventName = eventName

\* the last step delivered a vendor event to a tracker that was initialized
DeliveredToTracker(eventName) ==
    /\ Delivered(eventName)
    /\ Truthy(lastOp.internal)
    /\ "usersInRoom" \in DOMAIN lastOp.before

\* a and b agree on property f (both lack it, or both have it with one value)
SameProp(a, b, f) ==
    /\ (f \in DOMAIN a) = (f \in DOMAIN b)
    /\ f \in DOMAIN a => a[f] = b[f]

\* C11: when a vendor event translates to a non-null internal event, every
\* listener registered for its name at that moment is invoked once within the
\* delivery, in registration order, with the internal event and its context.
C11_OrderedDispatch ==
    (lastOp.op = "deliver" /\ Truthy(lastOp.internal)) =>
        /\ Len(lastOp.invoked) = Len(lastOp.handlers)
        /\ \A i \in 1..Len(lastOp.invoked) :
               /\ lastOp.invoked[i].callback = lastOp.handlers[i].callback
               /\ lastOp.invoked[i].context = lastOp.handlers[i].context
               /\ lastOp.invoked[i].event = lastOp.internal

\* the callbacks the tracker subscribes
TrackerCallbacks == {TrackerSubscriptions[k].callback : k \in 1..Len(TrackerSubscriptions)}

\* the tracker subscribes to eventName
TrackerListensTo(eventName) ==
    \E k \in 1..Len(TrackerSubscriptions) : TrackerSubscriptions[k].eventName = eventName

\* the callback the tracker subscribes to eventName
TrackerCallbackOf(eventName) ==
    (CHOOSE sub \in Range(TrackerSubscriptions) : sub.eventName = eventName).callback

\* C12: nothing is registered before the tracker is initialized; afterwards
\* the tracker's listener is the first of each event it subscribes to, and in
\* every delivery each other listener (plugin listener or command router)
\* runs after the tracker's and finds the snapshot as the tracker's handler
\* for that event left it.
C12_TrackerFirst ==
    /\ phase = "connected" => \A e \in DOMAIN eventHandlers : eventHandlers[e] = <<>>
    /\ phase = "running" =>
           \A sub \in Range(TrackerSubscriptions) :
               /\ eventHandlers[sub.eventName] # <<>>
               /\ eventHandlers[sub.eventName][1].callback = sub.callback
    /\ (lastOp.op = "deliver" /\ TrackerListensTo(lastOp.eventName)) =>
           \A i \in 1..Len(lastOp.invoked) :
               lastOp.invoked[i].callback \notin TrackerCallbacks =>
                   /\ i > 1
                   /\ lastOp.invoked[1].callback = TrackerCallbackOf(lastOp.eventName)
                   /\ lastOp.invoked[i].roomState =
                          callListener(TrackerCallbackOf(lastOp.eventName), lastOp.internal,
                                       lastOp.before, config, commands, clock).roomState

\* a chat message was delivered to the tracker, a plugin listener and the
\* command router, and the router found the message in chatHistory
C12_Witness ==
    /\ Delivered(Event.CHAT)
    /\ Len(lastOp.invoked) = 3
    /\ lastOp.invoked[2].callback = "p1"
    /\ lastOp.invoked[3].callback = "commandHandler"
    /\ lastOp.before.chatHistory = <<>>
    /\ lastOp.invoked[3].roomState.chatHistory # <<>>
    /\ lastOp.invoked[3].roomState.chatHistory[1].message = lastOp.event.message

\* the vendor event is one of those the translators reject
Malformed(eventName, event) ==
    \/ eventName = Event.ADVANCE /\ ("user" \notin DOMAIN event \/ "media" \notin DOMAIN event)
    \/ eventName = Event.VOTE /\ event.dubtype \notin {"updub", "downdub"}
    \/ eventName = Event.ROOM_PLAYLIST_QUEUE_UPDATE /\ "queue" \notin DOMAIN event
    \/ eventName \in {Event.USER_JOIN, Event.USER_LEAVE, Event.USER_UPDATE}
       /\ "user" \notin DOMAIN event

\* C13: the delivery of an Advance without user or media, of a Vote whose
\* kind tag is neither "updub" nor "downdub", of a queue update without queue
\* or of a user join, leave or update without user invokes no listener,
\* raises no error and leaves the snapshot unchanged.
C13_MalformedDropped ==
    (lastOp.op = "deliver" /\ Malformed(lastOp.eventName, lastOp.event)) =>
        /\ lastOp.invoked = <<>>
        /\ ~lastOp.threw
        /\ ~Truthy(lastOp.internal)
        /\ roomState = lastOp.before

\* a Vote with an unknown kind tag was delivered while the tracker and the
\* plugin listeners were registered for Vote
C13_Witness ==
    /\ Delivered(Event.VOTE)
    /\ lastOp.event.dubtype = "dub"
    /\ Len(lastOp.handlers) = 3
    /\ roomState.playHistory # <<>>

\* C14: Bot.on for a name that is not an internal event name does not raise,
\* changes no listener list and creates no list for the name.
C14_UnknownEventIgnored ==
    (lastOp.op = "on" /\ lastOp.eventName \notin Range(Event)) =>
        /\ ~lastOp.threw
        /\ eventHandlers = lastOp.handlers
        /\ DOMAIN eventHandlers = Range(Event)

\* the requests of the outbound actions
IsAction(request) == request.method # "connect"

\* C15: for every outbound action called with a callback: when queuing failed
\* the callback has been invoked once, with false, when the call returns;
\* when queuing succeeded it has not been invoked until the vendor client
\* completes the request and has been invoked once, with true, from then on.
C15_CompletionProtocol ==
    \A i \in 1..Len(transport) :
        (IsAction(transport[i]) /\ transport[i].callback # undefined) =>
            transport[i].results = IF ~transport[i].wasQueued THEN <<FALSE>>
                                   ELSE IF transport[i].completed THEN <<TRUE>>
                                   ELSE <<>>

\* a moveDjInWaitList with a callback was queued and has completed, and
\* another action with a callback was not queued
C15_Witness ==
    /\ lastOp.op = "complete"
    /\ \E i, j \in 1..Len(transport) :
           /\ transport[i].method = "moderateMoveDJ"
           /\ transport[i].callback # undefined
           /\ transport[i].completed /\ transport[i].results = <<TRUE>>
           /\ IsAction(transport[j]) /\ ~transport[j].wasQueued
           /\ transport[j].results = <<FALSE>>

\* C16: an outbound action called without a callback issues its request, and
\* neither the call nor the completion of the request raises an error.
C16_CallbackOptional ==
    (/\ lastOp.op \notin {"none", "disconnected"}
     /\ transport[lastOp.request].callback = undefined) =>
        ~lastOp.threw

\* C17: every 'disconnected' notification issues exactly one connect request,
\* for the room it names, whatever the number of earlier ones.
C17_Reconnect ==
    [][lastOp'.op = "disconnected" =>
          transport' = Append(transport, connect(lastOp'.roomName))]_vars

\* two successive 'disconnected' notifications have been answered
C17_Witness ==
    /\ lastOp.op = "disconnected"
    /\ Len(transport) >= 2
    /\ transport[Len(transport)].method = "connect"
    /\ transport[Len(transport) - 1].method = "connect"
    /\ transport[Len(transport)].roomName # transport[Len(transport) - 1].roomName

\* the userIDs of usersInRoom, in order
UserIDsOf(users) == [i \in 1..Len(users) |-> users[i].userID]

\* C18: the user list fetched at initialization having distinct IDs, no two
\* entries of usersInRoom have the same userID, and a User Join for a userID
\* already present raises no error and leaves usersInRoom unchanged.
C18_UsersUnique ==
    /\ phase = "running" => NoDuplicates(UserIDsOf(roomState.usersInRoom))
    /\ (/\ DeliveredToTracker(Event.USER_JOIN)
        /\ lastOp.internal.userID \in Range(UserIDsOf(lastOp.before.usersInRoom))) =>
           /\ ~lastOp.threw
           /\ roomState.usersInRoom = lastOp.before.usersInRoom

\* a User Join arrived for a user who was present
C18_Witness ==
    /\ DeliveredToTracker(Event.USER_JOIN)
    /\ lastOp.internal.userID \in Range(UserIDsOf(lastOp.before.usersInRoom))
    /\ Len(roomState.usersInRoom) = 2

\* arr without the entries whose userID is userID
WithoutUser(arr, userID) == SelectSeq(arr, LAMBDA u : u.userID # userID)

\* C19: a User Leave removes the entry of usersInRoom that has the event's
\* userID and leaves the other entries in their order; without such an entry
\* usersInRoom is unchanged; no error is raised and chatHistory, playHistory
\* and waitList are unchanged.
C19_UserLeaveRemovesEntry ==
    DeliveredToTracker(Event.USER_LEAVE) =>
        LET before == lastOp.before.usersInRoom
            userID == lastOp.internal.userID
        IN  /\ ~lastOp.threw
            /\ roomState.usersInRoom = WithoutUser(before, userID)
            /\ Len(roomState.usersInRoom) =
                   IF userID \in Range(UserIDsOf(before)) THEN Len(before) - 1
                   ELSE Len(before)
            /\ roomState.chatHistory = lastOp.before.chatHistory
            /\ roomState.playHistory = lastOp.before.playHistory
            /\ SameProp(roomState, lastOp.before, "waitList")

\* a User Leave arrived for the second of two users present
C19_Witness ==
    /\ DeliveredToTracker(Event.USER_LEAVE)
    /\ Len(lastOp.before.usersInRoom) = 2
    /\ lastOp.before.usersInRoom[2].userID = lastOp.internal.userID
    /\ Len(roomState.usersInRoom) = 1

\* C20: after a queue-update event, waitList holds one entry per entry of the
\* event's queue, in order, each with that entry's user and media translated,
\* and nothing else; usersInRoom, chatHistory and playHistory are unchanged.
C20_WaitListReplaced ==
    DeliveredToTracker(Event.ROOM_PLAYLIST_QUEUE_UPDATE) =>
        /\ ~lastOp.threw
        /\ "waitList" \in DOMAIN roomState
        /\ Len(roomState.waitList) = Len(lastOp.event.queue)
        /\ \A i \in 1..Len(roomState.waitList) :
               /\ roomState.waitList[i].user.userID = lastOp.event.queue[i].user.id
               /\ roomState.waitList[i].user.username = lastOp.event.queue[i].user.username
               /\ roomState.waitList[i].media.contentID = lastOp.event.queue[i].media.fkid
        /\ roomState.usersInRoom = lastOp.before.usersInRoom
        /\ roomState.chatHistory = lastOp.before.chatHistory
        /\ roomState.playHistory = lastOp.before.playHistory

\* a queue-update event replaced a wait list of one entry by one of two
C20_Witness ==
    /\ DeliveredToTracker(Event.ROOM_PLAYLIST_QUEUE_UPDATE)
    /\ "waitList" \in DOMAIN lastOp.before
    /\ Len(lastOp.before.waitList) = 1
    /\ Len(roomState.waitList) = 2
    /\ roomState.waitList[1].user.userID # lastOp.before.waitList[1].user.userID

\* the command token of the last chat event (empty when it has none)
CommandToken == IF "command" \in DOMAIN lastOp.internal THEN lastOp.internal.command ELSE <<>>

\* token is one of the command's triggers: exactly when commands are case
\* sensitive, ignoring letter case otherwise
Matches(command, token) ==
    \E k \in 1..Len(command.triggers) :
        IF config.areCommandsCaseSensitive
        THEN command.triggers[k] = token
        ELSE ToLowerCase(command.triggers[k]) = ToLowerCase(token)

\* the chat event's user may run the command
Permitted(command, chatEvent) ==
    \/ "minimumRole" \notin DOMAIN command
    \/ /\ chatEvent.userRole # undefinedObj
       /\ chatEvent.userRole.level >= command.minimumRole.level

\* the chat event's user is known to be below the command's minimum role
Refused(command, chatEvent) ==
    /\ "minimumRole" \in DOMAIN command
    /\ chatEvent.userRole # undefinedObj
    /\ chatEvent.userRole.level < command.minimumRole.level

\* C21: for a chat event with a non-empty command token, every command one of
\* whose triggers is the token is processed once (its handler, or its
\* permission hook, or nothing when the user is refused and it has no hook),
\* in registration order and whatever the other commands do; no callback of
\* another command is invoked; without a token nothing is invoked.
C21_RoutingSelectsMatches ==
    lastOp.op = "chat" =>
        IF CommandToken = <<>> THEN calls = <<>>
        ELSE /\ \A i \in 1..Len(commands) :
                    LET n == Invocations(i, "handler")
                             + Invocations(i, "insufficientPermissionsHandler")
                    IN  IF Matches(commands[i], CommandToken)
                        THEN \/ n = 1
                             \/ /\ n = 0
                                /\ Refused(commands[i], lastOp.internal)
                                /\ "insufficientPermissionsHandler" \notin DOMAIN commands[i]
                        ELSE n = 0
             /\ \A a, b \in 1..Len(calls) : a < b => calls[a].command <= calls[b].command

\* C22: when areCommandsCaseSensitive is not set, the handler of a command
\* the user may run is invoked exactly when the token equals one of its
\* triggers ignoring letter case, whatever the casing of token and trigger;
\* when it is set, exactly when the token is one of its triggers.
C22_CaseInsensitiveMatching ==
    (lastOp.op = "chat" /\ CommandToken # <<>> /\ ~lastOp.threw) =>
        \A i \in 1..Len(commands) :
            Permitted(commands[i], lastOp.internal) =>
                (Invocations(i, "handler") = 1) = Matches(commands[i], CommandToken)

\* C23: in a delivery in which a listener threw, every listener registered
\* for the event has still been invoked.
C23_ListenerIsolation ==
    (lastOp.op = "deliver" /\ lastOp.threw) =>
        \A i \in 1..Len(lastOp.handlers) :
            \E k \in 1..Len(lastOp.invoked) :
                /\ lastOp.invoked[k].callback = lastOp.handlers[i].callback
                /\ lastOp.invoked[k].context = lastOp.handlers[i].context

\* the IDs of the fetched users that satisfy the flag test given as a set of users
FlaggedIDs(users, flagged) == {users[i].id : i \in {k \in 1..Len(users) : users[k] \in flagged}}

\* C24: when StateTracker.init has run: if the fetch returned a media and a
\* DJ, playHistory holds one Play, of that media and that DJ, whose grabs,
\* woots and mehs hold exactly the IDs of the fetched users flagged grab,
\* vote = 1 and vote = -1; otherwise playHistory is empty; usersInRoom holds
\* one translated entry per fetched user, in order.
C24_InitReconstructsPlay ==
    lastOp.op = "init" =>
        LET users == lastOp.users
            fetched == Range(users)
        IN  /\ IF lastOp.media # undefinedObj /\ lastOp.dj # undefinedObj
               THEN /\ Len(roomState.playHistory) = 1
                    /\ LET play == roomState.playHistory[1]
                       IN  /\ play.media.contentID = lastOp.media.fkid
                           /\ play.user.userID = lastOp.dj.id
                           /\ play.user.username = lastOp.dj.username
                           /\ Range(play.votes.grabs) =
                                  FlaggedIDs(users, {u \in fetched : u.grab})
                           /\ Range(play.votes.woots) =
                                  FlaggedIDs(users, {u \in fetched : u.vote = 1})
                           /\ Range(play.votes.mehs) =
                                  FlaggedIDs(users, {u \in fetched : u.vote = -1})
                           /\ NoDuplicates(play.votes.grabs)
                           /\ NoDuplicates(play.votes.woots)
                           /\ NoDuplicates(play.votes.mehs)
               ELSE roomState.playHistory = <<>>
            /\ Len(roomState.usersInRoom) = Len(users)
            /\ \A i \in 1..Len(users) :
                   /\ roomState.usersInRoom[i].userID = users[i].id
                   /\ roomState.usersInRoom[i].username = users[i].username

\* init found a media, a DJ, a user who wooted and a user who grabbed and mehed
C24_Witness ==
    /\ lastOp.op = "init"
    /\ Len(roomState.playHistory) = 1
    /\ roomState.playHistory[1].votes.woots = <<"u1">>
    /\ roomState.playHistory[1].votes.mehs = <<"u2">>
    /\ roomState.playHistory[1].votes.grabs = <<"u2">>
    /\ Len(roomState.usersInRoom) = 2

\* the 1-based position of the message of chatHistory the Chat Delete names, 0 if none
FoundAt(history, chatID) ==
    IF \E i \in 1..Len(history) : history[i].chatID = chatID
    THEN CHOOSE i \in 1..Len(history) :
             /\ history[i].chatID = chatID
             /\ \A j \in 1..(i - 1) : history[j].chatID # chatID
    ELSE 0

\* the positions after i of the maximal run of messages of the author of i
RunAfter(history, i) ==
    {j \in (i + 1)..Len(history) :
        \A k \in (i + 1)..j : history[k].userID = history[i].userID}

C26_DeletionStamp ==
    lastOp.op = "chatDelete" =>
        \A k \in 1..Len(lastOp.internal.deletedMessages) :
            LET marked == lastOp.internal.deletedMessages[k]
            IN  /\ "deletedByUserID" \in DOMAIN marked
                /\ marked.deletedByUserID = lastOp.event.user.id
                /\ "deletionTime" \in DOMAIN marked
                /\ marked.deletionTime = lastOp.internal.deletedMessages[1].deletionTime

\* the chatIDs of an array of messages
ChatIDsOf(messages) == {messages[k].chatID : k \in 1..Len(messages)}

\* C27: after a Chat Delete, event.deletedMessages holds exactly the messages
\* that were not deleted before the event and are deleted after it, and it is
\* empty, with the snapshot unchanged, when the chatID is not in chatHistory.
C27_DeletedMessagesExact ==
    [][(phase = "running" /\ lastOp'.op = "chatDelete") =>
          LET history == roomState.chatHistory
              newly == {j \in 1..Len(history) :
                           ~IsDeleted(history[j]) /\ IsDeleted(roomState'.chatHistory[j])}
          IN  /\ ChatIDsOf(lastOp'.internal.deletedMessages) =
                     {history[j].chatID : j \in newly}
              /\ Len(lastOp'.internal.deletedMessages) = Cardinality(newly)
              /\ FoundAt(history, lastOp'.internal.chatID) = 0 =>
                     /\ lastOp'.internal.deletedMessages = <<>>
                     /\ roomState' = roomState]_vars

\* the properties of a chat message that a deletion does not touch
ContentOf(chatObj) ==
    [f \in DOMAIN chatObj \ {"isDeleted", "deletedByUserID", "deletionTime"} |-> chatObj[f]]

\* C28: a Chat Delete keeps the length and order of chatHistory and every
\* message's chatID, message, userID, username, type and timestamp, setting
\* only isDeleted, deletedByUserID and deletionTime; and under no event does
\* a message that stays in chatHistory go from deleted to not deleted.
C28_DeletionInPlace ==
    [][phase = "running" =>
          /\ lastOp'.op = "chatDelete" =>
                 /\ Len(roomState'.chatHistory) = Len(roomState.chatHistory)
                 /\ \A j \in 1..Len(roomState.chatHistory) :
                        /\ ContentOf(roomState'.chatHistory[j]) =
                               ContentOf(roomState.chatHistory[j])
                        /\ {"chatID", "message", "userID", "username", "type", "timestamp"}
                               \subseteq DOMAIN ContentOf(roomState'.chatHistory[j])
          /\ \A i \in 1..Len(roomState.chatHistory), j \in 1..Len(roomState'.chatHistory) :
                 (/\ roomState.chatHistory[i].chatID = roomState'.chatHistory[j].chatID
                  /\ IsDeleted(roomState.chatHistory[i])) =>
                     IsDeleted(roomState'.chatHistory[j])]_vars

\* a deleted message has been pushed down by a later chat message and is
\* still deleted
C28_Witness ==
    /\ lastOp.op = "chat"
    /\ Len(roomState.chatHistory) >= 2
    /\ IsDeleted(roomState.chatHistory[2])
    /\ ~IsDeleted(roomState.chatHistory[1])

\* the smaller of two numbers
Min(a, b) == IF a < b THEN a ELSE b

\* after clock Chat events (the n-th has chatID n), chatHistory holds the
\* latest of them, most recent first, as many as the configured maximum allows
LatestChatsFirst ==
    /\ Len(roomState.chatHistory) = Min(config.numberOfChatEventsToStore, clock)
    /\ \A i \in 1..Len(roomState.chatHistory) :
           roomState.chatHistory[i].chatID = clock - i + 1

\* C29 as stated: chatHistory never exceeds the configured maximum, the
\* message of the latest Chat event is at index 0, the messages are in
\* reverse order of arrival and the oldest are the ones discarded.
C29_ChatHistoryCapped ==
    phase = "running" =>
        /\ LatestChatsFirst
        /\ lastOp.op = "chat" =>
               /\ roomState.chatHistory # <<>>
               /\ roomState.chatHistory[1].chatID = lastOp.internal.chatID
               /\ roomState.chatHistory[1].message = lastOp.internal.message

\* C29 amended: chatHistory never exceeds the configured maximum, the
\* messages are in reverse order of arrival and the oldest are the ones
\* discarded; when the maximum is at least 1, the message of the latest Chat
\* event is at index 0 (with a maximum of 0 nothing is stored).
C29_ChatHistoryCappedAboveZero ==
    phase = "running" =>
        /\ LatestChatsFirst
        /\ (lastOp.op = "chat" /\ config.numberOfChatEventsToStore >= 1) =>
               /\ roomState.chatHistory # <<>>
               /\ roomState.chatHistory[1].chatID = lastOp.internal.chatID
               /\ roomState.chatHistory[1].message = lastOp.internal.message

\* a Chat event arrived when chatHistory was full, and the oldest message
\* was discarded
C29_Witness ==
    /\ lastOp.op = "chat"
    /\ config.numberOfChatEventsToStore = 2
    /\ clock = 3
    /\ Len(roomState.chatHistory) = 2
    /\ roomState.chatHistory[1].chatID = 3
    /\ roomState.chatHistory[2].chatID = 2

\* the Play of plays that was created at the clock value arrival, in a set
PlaysArrivedAt(plays, arrival) == {plays[j] : j \in {k \in 1..Len(plays) : plays[k].arrival = arrival}}

\* C30: under every event, each Play that was at an index >= 1 is afterwards
\* unchanged or gone from playHistory (which only an Advance does); a Vote or
\* a Grab changes nothing but playHistory[0].votes; an Advance changes no
\* Play that stays; and no Play that stays loses an identifier of votes.grabs.
C30_OnlyCurrentPlayMutable ==
    [][phase = "running" =>
          LET before == roomState.playHistory
              after == roomState'.playHistory
          IN  /\ \A i \in 2..Len(before) :
                     \/ PlaysArrivedAt(after, before[i].arrival) = {before[i]}
                     \/ /\ PlaysArrivedAt(after, before[i].arrival) = {}
                        /\ lastOp'.op = "advance"
              /\ lastOp'.op \in {"vote", "grab"} =>
                     /\ Len(after) = Len(before)
                     /\ \A i \in 2..Len(before) : after[i] = before[i]
                     /\ before # <<>> =>
                            [after[1] EXCEPT !.votes = before[1].votes] = before[1]
                     /\ [roomState' EXCEPT !.playHistory = before] = roomState
              /\ lastOp'.op = "advance" =>
                     \A i \in 1..Len(before) :
                         PlaysArrivedAt(after, before[i].arrival) \subseteq {before[i]}
              /\ \A i \in 1..Len(before), j \in 1..Len(after) :
                     before[i].arrival = after[j].arrival =>
                         Range(before[i].votes.grabs) \subseteq Range(after[j].votes.grabs)]_vars

\* a Grab was applied to the current Play while an older Play was in playHistory
C30_Witness ==
    /\ lastOp.op = "grab" /\ ~lastOp.threw /\ ~lastOp.wasPresent
    /\ Len(roomState.playHistory) = 2
    /\ roomState.playHistory[1].votes.grabs # <<>>
    /\ roomState.playHistory[2].votes.grabs = <<>>

\* C31: translateChatEvent yields type EMOTE only for a message that begins
\* with "/me " and is longer than 4 characters; a message that contains
\* "/me " elsewhere, begins neither with it nor with "!", is typed MESSAGE
\* and keeps its text.
C31_EmoteOnlyByPrefix ==
    lastOp.op = "translateChatEvent" =>
        LET message == lastOp.event.message
            result == lastOp.result
        IN  /\ result.type = ChatType.EMOTE => IsEmoteText(message)
            /\ (/\ TestSlashMe(message)
                /\ SubSeq(message, 1, 4) # <<"/", "m", "e", " ">>
                /\ ~StartsWithBang(message)) =>
                   /\ result.type = ChatType.MESSAGE
                   /\ result.message = message

\* C32: whenever a Grab or a Vote that translates is delivered to an
\* initialized tracker, playHistory has a current Play, the tracker's handler
\* does not throw and every listener registered for the event is invoked.
C32_GrabVoteNeverFail ==
    (DeliveredToTracker(Event.GRAB) \/ DeliveredToTracker(Event.VOTE)) =>
        /\ lastOp.before.playHistory # <<>>
        /\ ~lastOp.threw
        /\ Len(lastOp.invoked) = Len(lastOp.handlers)

\* C33: for every internal event name Bot.on accepts, a translator exists,
\* and the delivery of a well-formed vendor event of that name, when no
\* listener throws, invokes every listener registered for it.
C33_AcceptedNamesDeliverable ==
    (/\ lastOp.op = "deliver"
     /\ lastOp.eventName \in Range(Event)
     /\ lastOp.handlers # <<>>
     /\ ~Malformed(lastOp.eventName, lastOp.event)
     /\ ~lastOp.threw) =>
        /\ lastOp.eventName \in TranslatedEventNames
        /\ Len(lastOp.invoked) = Len(lastOp.handlers)

\* C34: from the completion of initialization on, roomState.waitList is
\* defined and is a sequence of wait-list entries.
C34_WaitListDefined ==
    phase = "running" =>
        /\ "waitList" \in DOMAIN roomState
        /\ DOMAIN roomState.waitList = 1..Len(roomState.waitList)

====
